---- MODULE Spec2Model ----
(***************************************************************************)
(* A model of the event multiplexing, scheduling and conversation-turn     *)
(* orchestration of the agent host: Scheduler (agent_system/core/          *)
(* scheduler.py), Engine (agent_system/core/engine.py) and Persistence     *)
(* (utils/persistence.py).                                                 *)
(*                                                                         *)
(* Threads: one poller per channel, the Scheduler's tick loop, and the     *)
(* Engine's run loop (the Dispatcher).  Every blocking call is a step      *)
(* boundary, so the other threads interleave with it.                      *)
(***************************************************************************)
EXTENDS Integers, Sequences, FiniteSets, TLC

VARIABLES
    now,            \* the wall clock, datetime.now()
    tasks,          \* Scheduler.tasks: list of references (ids) to task objects
    heap,           \* the ScheduledTask objects, by reference
    savedTasks,     \* memory/scheduled_tasks.json
    running,        \* Scheduler.running
    spc,            \* where the Scheduler thread is
    tick,           \* the locals of Scheduler._check_and_run_tasks
    nextId,         \* the next fresh task id (uuid4)
    fired,          \* history: how often the firing callback was invoked, per task
    cbEnq,          \* history: how many events the firing callback enqueued
    queue,          \* Engine.input_queue
    nprod,          \* per channel: how many inputs get_input has returned
    alive,          \* per channel: whether its poller thread is still looping
    injected,       \* how many task-fired events were put on the queue directly
    dpc,            \* where the run loop (the Dispatcher) is
    cur,            \* user_input: the event being processed
    current_channel,\* Engine.current_channel
    session_file,   \* Persistence.session_file: position of the current session file
    files,          \* the session files, in the order of their names
    threshold,      \* whether context_compact_threshold is configured
    hist,           \* the locals of _handle_compact: history, new_history
    rep,            \* the locals of replace_history
    tc,             \* tool_name: the tool the Provider's last response requested, if any
    toolCalls,      \* tool calls made in the current turn
    evOut,          \* history: the send_output calls made for the current event
    provCalls,      \* history: the Provider calls made for the current event
    processed,      \* history: per channel, the inputs the Dispatcher has taken
    inflight,       \* history: events taken off the queue and not yet finished
    appended,       \* history: per session, the messages the store's callers appended
    ret,            \* history: the last call of the Scheduler's interface or of a task tool, and what it returned
    stopAsked,      \* history: per channel, whether the shutdown has called its stop_activity
    output_dir,     \* the files in the workspace's output directory
    orphan          \* the _run_loop thread of an earlier start(), if it still runs: its position and locals

schedVars == <<now, tasks, heap, savedTasks, running, spc, tick, nextId, fired, cbEnq, orphan>>
pollVars == <<nprod, alive, injected>>
storeVars == <<session_file, files>>
dispVars == <<dpc, cur, current_channel, threshold, hist, rep, tc, toolCalls, evOut, provCalls, processed, inflight>>
engineVars == <<nprod, alive, injected, dpc, cur, current_channel, session_file, files, threshold,
                hist, rep, tc, toolCalls, evOut, provCalls, processed, inflight, appended, ret, stopAsked, output_dir>>
vars == <<now, tasks, heap, savedTasks, running, spc, tick, nextId, fired, cbEnq, orphan, queue,
          nprod, alive, injected, dpc, cur, current_channel, session_file, files, threshold,
          hist, rep, tc, toolCalls, evOut, provCalls, processed, inflight, appended, ret, stopAsked, output_dir>>

(***************************************************************************)
(* Bounds of the model.                                                    *)
(***************************************************************************)
MaxTime == 2
MaxTasks == 2
MaxIds == 2
MaxFires == 3
MaxSessions == 3
MaxRecords == 3
NumChannels == 2
MaxEvents == 2
MaxThreadEvents == 1
MaxCalls == 3
OracleLen == 5
MaxToolCalls == 1
MaxHist == 8
MaxOutFiles == 2
MaxLen == 2
MaxTokens == 2

Channels == 1..NumChannels

(***************************************************************************)
(* Values.                                                                 *)
(***************************************************************************)
\* next_run = None, and a next_run string datetime.fromisoformat rejects
None == -1
Invalid == -2

\* A cron expression: it matches the instants that are multiples of `every`,
\* up to `until` (0: for ever; a bounded one is an expression with a year field)
\* every = 0 stands for an expression croniter rejects
CronExprs == { [every |-> 1, until |-> 0], [every |-> 1, until |-> 1], [every |-> 0, until |-> 0] }
AtValues == { [at |-> 1], [at |-> 2], [at |-> Invalid] }

\* a recomputation that admits now itself as the next instant
CronNextInclusive(expr, t) == ((t + expr.every - 1) \div expr.every) * expr.every

\* croniter(expr, now).get_next(): the earliest matching instant strictly after now
CronNext(expr, t) == ((t \div expr.every) + 1) * expr.every

\* whether get_next() finds an instant (it raises when there is none)
CronHasNext(expr, t) ==
    /\ expr.every > 0
    /\ expr.until = 0 \/ CronNext(expr, t) <= expr.until

\* ScheduledTask.calculate_next_run (scheduler.py:26-39)
calculate_next_run(trigger_type, trigger_value, t) ==
    IF trigger_type = "cron"
    THEN IF CronHasNext(trigger_value, t) THEN CronNext(trigger_value, t) ELSE None
    ELSE IF trigger_type = "at" THEN trigger_value.at
    ELSE None

\* ScheduledTask.__init__ (scheduler.py:10-24).  The object has these attributes
\* and no other: in particular no channel_name.
ScheduledTask(id, session, trigger_type, trigger_value, next_run, t) ==
    [ id |-> id,
      prompt |-> id,
      session_file |-> session,
      trigger_type |-> trigger_type,
      trigger_value |-> trigger_value,
      next_run |-> IF next_run = None
                   THEN calculate_next_run(trigger_type, trigger_value, t)
                   ELSE next_run ]

\* a from_dict that computes next_run anew for every task
from_dict_recomputes(d, t) ==
    ScheduledTask(d.id, d.session_file, d.trigger_type, d.trigger_value, None, t)

\* ScheduledTask.to_dict / from_dict (scheduler.py:41-62)
to_dict(task) == task
from_dict(d, t) ==
    ScheduledTask(d.id, d.session_file, d.trigger_type, d.trigger_value, d.next_run, t)

\* datetime.fromisoformat(task.next_run): raises ValueError on a malformed string
IsoParses(s) == s # Invalid

RECURSIVE IndexOf(_, _, _)
IndexOf(s, x, i) ==
    IF i > Len(s) THEN 0 ELSE IF s[i] = x THEN i ELSE IndexOf(s, x, i + 1)

\* list.remove(x) / del list[i]: the list without its first x
RemoveFirst(s, x) ==
    LET i == IndexOf(s, x, 1)
    IN  IF i = 0 THEN s
        ELSE [ j \in 1..(Len(s) - 1) |-> IF j < i THEN s[j] ELSE s[j + 1] ]

InSeq(s, x) == \E i \in 1..Len(s) : s[i] = x

\* Scheduler._save_tasks (scheduler.py:78-80)
SaveTasks(ts, h) == [ i \in 1..Len(ts) |-> to_dict(h[ts[i]]) ]

(***************************************************************************)
(* Engine._on_scheduled_task (engine.py:279-289), the firing callback.     *)
(* Line 284 reads task.channel_name; on an object without that attribute   *)
(* it raises AttributeError before the put of line 289, and the Scheduler  *)
(* catches it (scheduler.py:152-155).                                      *)
(***************************************************************************)
ChannelName(c) == c

TargetChannel(task) ==
    IF \E c \in Channels : ChannelName(c) = task.channel_name
    THEN CHOOSE c \in Channels :
            /\ ChannelName(c) = task.channel_name
            /\ \A d \in Channels : ChannelName(d) = task.channel_name => c <= d
    ELSE 1

OnScheduledTaskRaises(task) == "channel_name" \notin DOMAIN task

OnScheduledTask(q, task) ==
    IF OnScheduledTaskRaises(task)
    THEN q
    ELSE Append(q, [channel |-> TargetChannel(task), kind |-> "task", task |-> task])

(***************************************************************************)
(* The Scheduler.                                                          *)
(***************************************************************************)
\* the locals of a tick, and (called) the tasks whose callback it has invoked
NoTick == [now |-> 0, snap |-> <<>>, idx |-> 0, executed |-> FALSE, called |-> <<>>]

\* no such thread
NoThread == [spc |-> "off", tick |-> NoTick]

\* time passes
AdvanceClock ==
    /\ now < MaxTime
    /\ now' = now + 1
    /\ UNCHANGED <<tasks, heap, savedTasks, running, spc, tick, nextId, fired, cbEnq, orphan, queue>>
    /\ UNCHANGED engineVars

\* Scheduler.start (scheduler.py:82-88)
SchedStart ==
    /\ ~running
    /\ spc = "off"
    /\ running' = TRUE
    /\ spc' = "sleep"
    /\ UNCHANGED <<now, tasks, heap, savedTasks, tick, nextId, fired, cbEnq, orphan, queue>>
    /\ UNCHANGED engineVars

\* a copy that lists the tasks from the newest to the oldest
SnapshotReversed(ts) == [ i \in 1..Len(ts) |-> ts[Len(ts) + 1 - i] ]

\* self.tasks[:] (scheduler.py:135)
Snapshot(ts) == ts

\* a loop that goes on ticking whatever the flag
TickBeginUnguarded ==
    /\ spc = "sleep"
    /\ tick' = [now |-> now, snap |-> Snapshot(tasks), idx |-> 1, executed |-> FALSE, called |-> <<>>]
    /\ spc' = "iter"
    /\ UNCHANGED <<now, tasks, heap, savedTasks, running, nextId, fired, cbEnq, orphan, queue>>
    /\ UNCHANGED engineVars

\* _run_loop calls _check_and_run_tasks (scheduler.py:121-135): now is read and
\* the list is copied
TickBegin ==
    /\ spc = "sleep"
    /\ running
    /\ tick' = [now |-> now, snap |-> Snapshot(tasks), idx |-> 1, executed |-> FALSE, called |-> <<>>]
    /\ spc' = "iter"
    /\ UNCHANGED <<now, tasks, heap, savedTasks, running, nextId, fired, cbEnq, orphan, queue>>
    /\ UNCHANGED engineVars

\* whether the tick finds the task due (scheduler.py:136-148)
IsDue(task, t) ==
    /\ task.next_run # None
    /\ IsoParses(task.next_run)
    /\ t >= task.next_run

\* an iteration whose callback's exception leaves the tick
TickCheckPropagates ==
    /\ spc = "iter"
    /\ tick.idx <= Len(tick.snap)
    /\ fired[tick.snap[tick.idx]] < MaxFires
    /\ LET id == tick.snap[tick.idx]
           task == heap[id]
       IN  IF IsDue(task, tick.now)
           THEN /\ queue' = OnScheduledTask(queue, task)
                /\ cbEnq' = cbEnq + (Len(queue') - Len(queue))
                /\ fired' = [fired EXCEPT ![id] = @ + 1]
                /\ IF OnScheduledTaskRaises(task)
                   THEN tick' = NoTick /\ spc' = "sleep"
                   ELSE /\ tick' = [tick EXCEPT !.executed = TRUE, !.called = Append(@, id)]
                        /\ spc' = "after"
           ELSE /\ tick' = [tick EXCEPT !.idx = @ + 1]
                /\ UNCHANGED <<queue, cbEnq, fired, spc>>
    /\ UNCHANGED <<now, tasks, heap, savedTasks, running, nextId, orphan>>
    /\ UNCHANGED engineVars

\* one iteration of the loop over the copy, up to and including the callback
\* (scheduler.py:135-157)
TickCheck ==
    /\ spc = "iter"
    /\ tick.idx <= Len(tick.snap)
    /\ fired[tick.snap[tick.idx]] < MaxFires
    /\ LET id == tick.snap[tick.idx]
           task == heap[id]
       IN  IF IsDue(task, tick.now)
           THEN /\ queue' = OnScheduledTask(queue, task)
                /\ cbEnq' = cbEnq + (Len(queue') - Len(queue))
                /\ fired' = [fired EXCEPT ![id] = @ + 1]
                /\ tick' = [tick EXCEPT !.executed = TRUE, !.called = Append(@, id)]
                /\ spc' = "after"
           ELSE /\ tick' = [tick EXCEPT !.idx = @ + 1]
                /\ UNCHANGED <<queue, cbEnq, fired, spc>>
    /\ UNCHANGED <<now, tasks, heap, savedTasks, running, nextId, orphan>>
    /\ UNCHANGED engineVars

\* the task's next_run after its firing (scheduler.py:163-173): recomputed from
\* the tick's now, or left as it is when croniter raises
Reschedule(task, t) ==
    IF task.trigger_type = "cron" /\ CronHasNext(task.trigger_value, t)
    THEN [task EXCEPT !.next_run = CronNext(task.trigger_value, t)]
    ELSE task

\* a tick that keeps a one-shot task in the list
AfterFiringKeeps(ts, task) == ts

\* the list after the firing of the task (scheduler.py:160-162)
AfterFiring(ts, task) ==
    IF task.trigger_type = "at" THEN RemoveFirst(ts, task.id) ELSE ts

\* the rest of the iteration: removal or rescheduling (scheduler.py:159-173).
\* self.tasks.remove(task) raises ValueError when the task is no longer in the
\* list; that ends the tick in _run_loop's handler (scheduler.py:124-128),
\* before _save_tasks.
TickAfter ==
    /\ spc = "after"
    /\ LET id == tick.snap[tick.idx]
           task == heap[id]
       IN  IF task.trigger_type = "at" /\ ~InSeq(tasks, id)
           THEN /\ spc' = "sleep"
                /\ tick' = NoTick
                /\ UNCHANGED <<tasks, heap>>
           ELSE /\ tasks' = AfterFiring(tasks, task)
                /\ heap' = [heap EXCEPT ![id] = Reschedule(task, tick.now)]
                /\ tick' = [tick EXCEPT !.idx = @ + 1]
                /\ spc' = "iter"
    /\ UNCHANGED <<now, savedTasks, running, nextId, fired, cbEnq, orphan, queue>>
    /\ UNCHANGED engineVars

\* the end of the tick (scheduler.py:175-176), then sleep
TickEnd ==
    /\ spc = "iter"
    /\ tick.idx > Len(tick.snap)
    /\ savedTasks' = IF tick.executed THEN SaveTasks(tasks, heap) ELSE savedTasks
    /\ tick' = NoTick
    /\ spc' = "sleep"
    /\ UNCHANGED <<now, tasks, heap, running, nextId, fired, cbEnq, orphan, queue>>
    /\ UNCHANGED engineVars

\* Scheduler.add_task (scheduler.py:96-101), called from another thread
add_task(session, trigger_type, trigger_value) ==
    /\ nextId <= MaxIds
    /\ heap' = heap @@ (nextId :> ScheduledTask(nextId, session, trigger_type, trigger_value, None, now))
    /\ tasks' = Append(tasks, nextId)
    /\ savedTasks' = SaveTasks(tasks', heap')
    /\ fired' = fired @@ (nextId :> 0)
    /\ nextId' = nextId + 1

\* a remove_task that leaves the stored list as it is
remove_task_unsaved(id) ==
    /\ tasks' = RemoveFirst(tasks, id)
    /\ savedTasks' = savedTasks

\* Scheduler.remove_task (scheduler.py:103-110), called from another thread
remove_task(id) ==
    /\ tasks' = RemoveFirst(tasks, id)
    /\ savedTasks' = IF InSeq(tasks, id) THEN SaveTasks(tasks', heap) ELSE savedTasks

ApiAddTask ==
    /\ \E v \in {[at |-> 1]} : add_task(1, "at", v)
    /\ UNCHANGED <<now, running, spc, tick, cbEnq, orphan, queue>>
    /\ UNCHANGED engineVars

ApiAddCron ==
    /\ \E v \in {[every |-> 1, until |-> 0]} : add_task(1, "cron", v)
    /\ UNCHANGED <<now, running, spc, tick, cbEnq, orphan, queue>>
    /\ UNCHANGED engineVars

ApiRemoveTask ==
    /\ \E id \in DOMAIN heap : InSeq(tasks, id) /\ remove_task(id)
    /\ UNCHANGED <<now, heap, running, spc, tick, nextId, fired, cbEnq, orphan, queue>>
    /\ UNCHANGED engineVars

(***************************************************************************)
(* Persistence: the session files (utils/persistence.py).  A session file  *)
(* is a list of records; the files are listed in the order of their names, *)
(* which are creation timestamps.                                          *)
(***************************************************************************)
Content(tag, n) == [tag |-> tag, n |-> n]

\* a message as the Engine holds it: {"role", "content"}
Msg(role, content) == [role |-> role, content |-> content]

\* the records of a session file: a message with its timestamp, or the title
\* metadata
Record(msg, t) == [type |-> "message", role |-> msg.role, content |-> msg.content, timestamp |-> t]
Meta(title, t) == [type |-> "metadata", role |-> "title", content |-> title, timestamp |-> t]

\* Persistence.save_message (persistence.py:55-71)
save_message(fs, sf, role, content, t) ==
    [fs EXCEPT ![sf] = Append(@, Record(Msg(role, content), t))]

\* Persistence.set_session_title (persistence.py:73-82)
set_session_title(fs, sf, title, t) == [fs EXCEPT ![sf] = Append(@, Meta(title, t))]

\* a store that reports every session as untitled
has_title_never(fs, sf) == FALSE

\* Persistence.has_title (persistence.py:126-137)
has_title(fs, sf) == \E i \in 1..Len(fs[sf]) : fs[sf][i].type = "metadata"

\* Persistence.load_history (persistence.py:149-171): the messages, without the
\* metadata records
\* a loader that takes every record of the file for a message
KeepsEveryRecord(r) == TRUE

IsMessage(r) == r.type # "metadata"
Loaded(log) ==
    LET kept == SelectSeq(log, IsMessage)
    IN  [ i \in 1..Len(kept) |-> Msg(kept[i].role, kept[i].content) ]
load_history(fs, sf) == Loaded(fs[sf])

\* Persistence.start_new_session (persistence.py:32-43): a new, empty file whose
\* name sorts last
start_new_session(fs) == Append(fs, <<>>)

\* the lookup of the task's session among list_sessions() (engine.py:338-344,
\* persistence.py:84-114): the index, or -1
FindSession(fs, target) ==
    IF \E i \in 1..Len(fs) : i = target THEN target - 1 ELSE -1

\* a switch that leaves the current session as it is
switch_session_noop(fs, sf, index) == sf

\* Persistence.switch_session (persistence.py:116-124): the current session
\* after the call
switch_session(fs, sf, index) ==
    IF 0 <= index /\ index < Len(fs) THEN index + 1 ELSE sf

(***************************************************************************)
(* The Engine (agent_system/core/engine.py).                               *)
(***************************************************************************)
\* len(history) <= 6, history[:-6], history[-6:] (engine.py:163-168)
KeepLast == 6

\* max_retries of the Providers (google_provider.py:125, nano_gpt_provider.py:198)
max_retries == 3

Texts == {"hi", "/compact", "/exit", "/bogus"}
Commands == {"/compact", "/exit"}
\* a registry that holds every name the Provider can ask for
ToolsWithEveryName == {"get_current_time", "nosuch"}

Tools == {"get_current_time"}
Responses ==
    { [kind |-> "text", name |-> ""], [kind |-> "silent", name |-> ""],
      [kind |-> "tool", name |-> "get_current_time"], [kind |-> "tool", name |-> "nosuch"] }

\* a loop that takes no text for a command
NoSlash(text) == FALSE

\* user_input.startswith("/") (engine.py:366)
IsSlash(text) == text \in {"/compact", "/exit", "/bogus"}

NoEvent == [channel |-> 0, kind |-> "none"]
NoCall == [call |-> "none", n |-> 0]
NoHist == [summarize |-> <<>>, history |-> <<>>]
NoRep == [active |-> FALSE, open |-> FALSE, old |-> <<>>, new |-> <<>>, buf |-> <<>>]

Out(c, text) == [channel |-> c, text |-> text]

\* a queue that hands out the newest event first
QueuePutFront(q, e) == <<e>> \o q

\* queue.Queue.put (engine.py:274, 289)
QueuePut(q, e) == Append(q, e)

\* a loop that takes the next event wherever it is
LoopAtGetAnywhere == dpc \in {"idle", "turn", "post"}

\* the run loop is at self.input_queue.get() (engine.py:304-306)
LoopAtGet == dpc = "idle"

\* a shutdown that leaves the Scheduler running
ShutdownKeepsScheduler ==
    /\ running' = running
    /\ stopAsked' = [c \in Channels |-> TRUE]

\* the finally clause of the run loop (engine.py:491-497): Scheduler.stop
\* (scheduler.py:90-94) and every channel's stop_activity
Shutdown ==
    /\ running' = FALSE
    /\ stopAsked' = [c \in Channels |-> TRUE]

\* Engine.run up to the loop (engine.py:291-301): the pollers and the Scheduler
\* are started
RunStart ==
    /\ dpc = "init"
    /\ dpc' = "idle"
    /\ alive' = [c \in Channels |-> TRUE]
    /\ running' = TRUE
    /\ spc' = "sleep"
    /\ UNCHANGED <<now, tasks, heap, savedTasks, tick, nextId, fired, cbEnq, orphan, queue>>
    /\ UNCHANGED <<nprod, injected, cur, current_channel, session_file, files, threshold,
                   hist, rep, tc, toolCalls, evOut, provCalls, processed, inflight, appended, ret, stopAsked, output_dir>>

RECURSIVE SumTo(_, _)
SumTo(f, n) == IF n = 0 THEN 0 ELSE f[n] + SumTo(f, n - 1)

\* the events produced so far, by the channels and as task-fired events
TotalEvents == SumTo(nprod, NumChannels) + injected

\* a poller that saves the input to the session itself
PollFromSaving(c, texts) ==
    /\ alive[c]
    /\ dpc # "stopped"
    /\ TotalEvents < MaxEvents
    /\ \E text \in texts :
          /\ queue' = Append(queue, [channel |-> c, kind |-> "text", text |-> text, n |-> nprod[c] + 1])
          /\ files' = [files EXCEPT ![session_file] =
                           Append(@, [type |-> "message", role |-> "user",
                                      content |-> [tag |-> text, n |-> nprod[c] + 1],
                                      timestamp |-> now])]
    /\ nprod' = [nprod EXCEPT ![c] = @ + 1]
    /\ UNCHANGED schedVars
    /\ UNCHANGED <<alive, injected, dpc, cur, current_channel, session_file, threshold,
                   hist, rep, tc, toolCalls, evOut, provCalls, processed, inflight, appended, ret, stopAsked, output_dir>>

\* Engine._poll_channel (engine.py:269-277): get_input returns, the input is put
\* on the queue
PollFrom(c, texts) ==
    /\ alive[c]
    /\ dpc # "stopped"
    /\ TotalEvents < MaxEvents
    /\ \E text \in texts :
          queue' = QueuePut(queue, [channel |-> c, kind |-> "text", text |-> text, n |-> nprod[c] + 1])
    /\ nprod' = [nprod EXCEPT ![c] = @ + 1]
    /\ UNCHANGED schedVars
    /\ UNCHANGED <<appended, ret, stopAsked, output_dir>>
    /\ UNCHANGED <<alive, injected, dpc, cur, current_channel, session_file, files, threshold,
                   hist, rep, tc, toolCalls, evOut, provCalls, processed, inflight>>

\* a channel whose user types text and commands
PollChannel(c) == PollFrom(c, Texts)

\* a channel whose user types plain text
PollPlain(c) == PollFrom(c, {"hi"})

\* Engine._poll_channel (engine.py:275-277): get_input raises, the poller ends
PollerDies(c) ==
    /\ alive[c]
    /\ dpc # "stopped"
    /\ alive' = [alive EXCEPT ![c] = FALSE]
    /\ UNCHANGED schedVars
    /\ UNCHANGED <<appended, ret, stopAsked, output_dir>>
    /\ UNCHANGED <<queue, nprod, injected, dpc, cur, current_channel, session_file, files, threshold,
                   hist, rep, tc, toolCalls, evOut, provCalls, processed, inflight>>

\* A task-fired event arrives on the queue: TaskFired(channel-hint, task) of the
\* event queue.  The Engine's own callback cannot deliver one (see
\* OnScheduledTaskRaises); the run loop's handling of such events is exercised
\* with events put on the queue directly.
EnqueueTaskFired ==
    /\ dpc \notin {"init", "stopped"}
    /\ TotalEvents < MaxEvents
    /\ \E c \in Channels, s \in 0..Len(files) :
          queue' = QueuePut(queue, [channel |-> c, kind |-> "task",
                                    task |-> ScheduledTask(injected + 1, s, "at", [at |-> now], None, now)])
    /\ injected' = injected + 1
    /\ UNCHANGED schedVars
    /\ UNCHANGED <<appended, ret, stopAsked, output_dir>>
    /\ UNCHANGED <<nprod, alive, dpc, cur, current_channel, session_file, files, threshold,
                   hist, rep, tc, toolCalls, evOut, provCalls, processed, inflight>>

\* a loop that keeps addressing the channel it started with
TakeEventKeepsChannel(ev) ==
    /\ queue' = Tail(queue)
    /\ cur' = ev
    /\ current_channel' = current_channel
    /\ provCalls' = 0
    /\ toolCalls' = 0

\* taking the event off the queue (engine.py:306)
TakeEvent(ev) ==
    /\ queue' = Tail(queue)
    /\ cur' = ev
    /\ current_channel' = ev.channel
    /\ provCalls' = 0
    /\ toolCalls' = 0

\* plain text (engine.py:388-406, up to the title request)
DispatchText ==
    /\ LoopAtGet
    /\ queue # <<>>
    /\ Head(queue).kind = "text"
    /\ ~IsSlash(Head(queue).text)
    /\ LET ev == Head(queue)
       IN  /\ TakeEvent(ev)
           /\ files' = save_message(files, session_file, "user", Content(ev.text, ev.n), now)
           /\ dpc' = IF has_title(files, session_file) THEN "turn" ELSE "title"
           /\ evOut' = <<>>
           /\ processed' = [processed EXCEPT ![ev.channel] = Append(@, ev.n)]
           /\ inflight' = inflight + 1
    /\ UNCHANGED schedVars
    /\ UNCHANGED <<appended, ret, stopAsked, output_dir>>
    /\ UNCHANGED <<nprod, alive, injected, session_file, threshold, hist, rep, tc>>

\* a slash command (engine.py:366-386) and its handler, up to the handler's
\* first Provider call
DispatchCommand ==
    /\ LoopAtGet
    /\ queue # <<>>
    /\ Head(queue).kind = "text"
    /\ IsSlash(Head(queue).text)
    /\ LET ev == Head(queue)
           command == ev.text
       IN  /\ TakeEvent(ev)
           /\ processed' = [processed EXCEPT ![ev.channel] = Append(@, ev.n)]
           /\ CASE command = "/compact" ->
                     /\ dpc' = "compact"
                     /\ evOut' = <<>>
                     /\ inflight' = inflight + 1
                     /\ UNCHANGED <<running, stopAsked>>
                [] command = "/exit" ->
                     /\ dpc' = "stopped"
                     /\ evOut' = <<Out(ev.channel, "Goodbye!")>>
                     /\ inflight' = inflight
                     /\ Shutdown
                [] OTHER ->
                     /\ dpc' = "idle"
                     /\ evOut' = <<Out(ev.channel, "Unknown command")>>
                     /\ inflight' = inflight
                     /\ UNCHANGED <<running, stopAsked>>
    /\ UNCHANGED <<now, tasks, heap, savedTasks, spc, tick, nextId, fired, cbEnq, orphan>>
    /\ UNCHANGED <<appended, ret, output_dir>>
    /\ UNCHANGED <<nprod, alive, injected, session_file, files, threshold, hist, rep, tc>>

\* the session files after the session handling of a task-fired event
\* (engine.py:337-352)
TaskFiles(fs, sf, task) ==
    IF sf # task.session_file /\ FindSession(fs, task.session_file) = -1
    THEN start_new_session(fs)
    ELSE fs

\* the current session after it
TaskSession(fs, sf, task) ==
    IF sf = task.session_file THEN sf
    ELSE IF FindSession(fs, task.session_file) # -1
         THEN switch_session(fs, sf, FindSession(fs, task.session_file))
         ELSE Len(fs) + 1

\* a handler that also shows the prompt on the channel
TaskOutputEchoes(fs, sf, task, c) == <<Out(c, "Scheduled Task")>>

\* what it sends to the channel (engine.py:346-348, 354-358)
TaskOutput(fs, sf, task, c) ==
    IF sf # task.session_file /\ FindSession(fs, task.session_file) # -1
    THEN <<Out(c, "Switched to session for task")>>
    ELSE <<>>

\* a task-fired event (engine.py:335-362)
DispatchTask ==
    /\ LoopAtGet
    /\ queue # <<>>
    /\ Head(queue).kind = "task"
    /\ LET ev == Head(queue)
           task == ev.task
       IN  /\ TakeEvent(ev)
           /\ session_file' = TaskSession(files, session_file, task)
           /\ files' = save_message(TaskFiles(files, session_file, task), session_file',
                                    "user", Content("Scheduled Task", task.prompt), now)
           /\ evOut' = TaskOutput(files, session_file, task, ev.channel)
           /\ dpc' = "turn"
           /\ inflight' = inflight + 1
    /\ UNCHANGED schedVars
    /\ UNCHANGED <<appended, ret, stopAsked, output_dir>>
    /\ UNCHANGED <<nprod, alive, injected, threshold, hist, rep, tc, processed>>

\* the title request of a session without a title (engine.py:393-406): the
\* Provider returns a title, or an empty one, or raises
TitleCall ==
    /\ dpc = "title"
    /\ \E answer \in {"title", "empty", "raises"} :
          files' = IF answer = "title"
                   THEN set_session_title(files, session_file, Content("title", 0), now)
                   ELSE files
    /\ provCalls' = provCalls + 1
    /\ dpc' = "turn"
    /\ UNCHANGED schedVars
    /\ UNCHANGED <<appended, ret, stopAsked, output_dir>>
    /\ UNCHANGED <<queue, nprod, alive, injected, cur, current_channel, session_file, threshold,
                   hist, rep, tc, toolCalls, evOut, processed, inflight>>

\* one Provider call of the turn and the handling of its response
\* (engine.py:409-425, 459-478)
ModelCall ==
    /\ dpc = "turn"
    /\ \E r \in Responses :
          /\ r.kind = "tool" => toolCalls < MaxToolCalls
          /\ CASE r.kind = "tool" /\ r.name \in Tools ->
                    /\ files' = save_message(files, session_file, "model", Content("tool_call", 0), now)
                    /\ tc' = r.name
                    /\ toolCalls' = toolCalls + 1
                    /\ dpc' = "tool"
                    /\ UNCHANGED evOut
               [] r.kind = "tool" /\ r.name \notin Tools ->
                    /\ files' = save_message(files, session_file, "assistant", Content("Tool not found", 0), now)
                    /\ evOut' = Append(evOut, Out(current_channel, "Tool not found"))
                    /\ tc' = r.name
                    /\ dpc' = "post"
                    /\ UNCHANGED toolCalls
               [] r.kind = "text" ->
                    /\ files' = save_message(files, session_file, "assistant", Content("response", 0), now)
                    /\ evOut' = Append(evOut, Out(current_channel, "response"))
                    /\ tc' = ""
                    /\ dpc' = "post"
                    /\ UNCHANGED toolCalls
               [] r.kind = "silent" ->
                    /\ tc' = ""
                    /\ dpc' = "post"
                    /\ UNCHANGED <<files, evOut, toolCalls>>
    /\ provCalls' = provCalls + 1
    /\ UNCHANGED schedVars
    /\ UNCHANGED <<appended, ret, stopAsked, output_dir>>
    /\ UNCHANGED <<queue, nprod, alive, injected, cur, current_channel, session_file, threshold,
                   hist, rep, processed, inflight>>

\* a tool execution whose exception leaves the run loop
ToolExecPropagates ==
    /\ dpc = "tool"
    /\ \E outcome \in {"returns", "raises"} :
          IF outcome = "returns"
          THEN /\ files' = save_message(files, session_file, "tool", Content("tool_result", 0), now)
               /\ dpc' = "turn"
          ELSE /\ dpc' = "dead"
               /\ UNCHANGED files
    /\ tc' = ""
    /\ UNCHANGED schedVars
    /\ UNCHANGED <<queue, nprod, alive, injected, cur, current_channel, session_file, threshold,
                   hist, rep, toolCalls, evOut, provCalls, processed, inflight, appended, ret, stopAsked, output_dir>>

\* the execution of the tool (engine.py:427-458): it returns, or it raises
ToolExec ==
    /\ dpc = "tool"
    /\ \E outcome \in {"returns", "raises"} :
          IF outcome = "returns"
          THEN /\ files' = save_message(files, session_file, "tool", Content("tool_result", 0), now)
               /\ dpc' = "turn"
               /\ UNCHANGED evOut
          ELSE /\ files' = save_message(files, session_file, "assistant", Content("Error executing tool", 0), now)
               /\ evOut' = Append(evOut, Out(current_channel, "Error executing tool"))
               /\ dpc' = "post"
    /\ tc' = ""
    /\ UNCHANGED schedVars
    /\ UNCHANGED <<appended, ret, stopAsked, output_dir>>
    /\ UNCHANGED <<queue, nprod, alive, injected, cur, current_channel, session_file, threshold,
                   hist, rep, toolCalls, provCalls, processed, inflight>>

\* the check after the turn (engine.py:480-486): with a threshold configured,
\* the Provider's token count exceeds it or not
PostTurn ==
    /\ dpc = "post"
    /\ \E exceeds \in BOOLEAN :
          IF threshold /\ exceeds
          THEN /\ dpc' = "compact"
               /\ UNCHANGED inflight
          ELSE /\ dpc' = "idle"
               /\ inflight' = inflight - 1
    /\ UNCHANGED schedVars
    /\ UNCHANGED <<appended, ret, stopAsked, output_dir>>
    /\ UNCHANGED <<queue, nprod, alive, injected, cur, current_channel, session_file, files, threshold,
                   hist, rep, tc, toolCalls, evOut, provCalls, processed>>

\* history[:-6] and history[-6:]
AllButLast(h, k) == SubSeq(h, 1, Len(h) - k)
LastOf(h, k) == SubSeq(h, Len(h) - k + 1, Len(h))

\* a compaction that keeps the first messages instead
NewHistoryKeepsFirst(h) ==
    << Msg("system", Content("Summary", 0)), Msg("system", Content("compacted", 0)) >>
        \o SubSeq(h, 1, KeepLast)

\* new_history (engine.py:167-185)
NewHistory(h) ==
    << Msg("system", Content("Summary", 0)), Msg("system", Content("compacted", 0)) >>
        \o LastOf(h, KeepLast)

\* Engine._handle_compact up to the Provider call (engine.py:160-178)
CompactLoad ==
    /\ dpc = "compact"
    /\ LET history == load_history(files, session_file)
       IN  IF Len(history) <= KeepLast
           THEN /\ evOut' = Append(evOut, Out(current_channel, "Not enough history"))
                /\ dpc' = "idle"
                /\ inflight' = inflight - 1
                /\ UNCHANGED hist
           ELSE /\ hist' = [summarize |-> AllButLast(history, KeepLast), history |-> history]
                /\ dpc' = "summarize"
                /\ UNCHANGED <<evOut, inflight>>
    /\ UNCHANGED schedVars
    /\ UNCHANGED <<appended, ret, stopAsked, output_dir>>
    /\ UNCHANGED <<queue, nprod, alive, injected, cur, current_channel, session_file, files, threshold,
                   rep, tc, toolCalls, provCalls, processed>>

\* the summary request, and new_history (engine.py:178-187)
Summarize ==
    /\ dpc = "summarize"
    /\ provCalls' = provCalls + 1
    /\ rep' = [active |-> TRUE, open |-> FALSE, old |-> files[session_file],
               new |-> NewHistory(hist.history), buf |-> <<>>]
    /\ dpc' = "replace"
    /\ UNCHANGED schedVars
    /\ UNCHANGED <<appended, ret, stopAsked, output_dir>>
    /\ UNCHANGED <<queue, nprod, alive, injected, cur, current_channel, session_file, files, threshold,
                   hist, tc, toolCalls, evOut, processed, inflight>>

\* Persistence.replace_history: open(self.session_file, "w") truncates the file
\* (persistence.py:175)
ReplaceOpen ==
    /\ dpc = "replace"
    /\ ~rep.open
    /\ files' = [files EXCEPT ![session_file] = <<>>]
    /\ rep' = [rep EXCEPT !.open = TRUE]
    /\ UNCHANGED schedVars
    /\ UNCHANGED <<appended, ret, stopAsked, output_dir>>
    /\ UNCHANGED <<queue, nprod, alive, injected, dpc, cur, current_channel, session_file, threshold,
                   hist, tc, toolCalls, evOut, provCalls, processed, inflight>>

\* one f.write (persistence.py:176-179): the line goes to the file object's
\* buffer, which is flushed to the file now or later
ReplaceWrite ==
    /\ dpc = "replace"
    /\ rep.open
    /\ Len(rep.buf) < Len(rep.new)
    /\ rep' = [rep EXCEPT !.buf = Append(@, Record(rep.new[Len(rep.buf) + 1], now))]
    /\ \E flush \in BOOLEAN :
          files' = IF flush THEN [files EXCEPT ![session_file] = rep'.buf] ELSE files
    /\ UNCHANGED schedVars
    /\ UNCHANGED <<appended, ret, stopAsked, output_dir>>
    /\ UNCHANGED <<queue, nprod, alive, injected, dpc, cur, current_channel, session_file, threshold,
                   hist, tc, toolCalls, evOut, provCalls, processed, inflight>>

\* the end of the with block (persistence.py:175-179) closes the file; then
\* _handle_compact reports (engine.py:188-189)
ReplaceClose ==
    /\ dpc = "replace"
    /\ rep.open
    /\ Len(rep.buf) = Len(rep.new)
    /\ files' = [files EXCEPT ![session_file] = rep.buf]
    /\ rep' = [rep EXCEPT !.active = FALSE, !.open = FALSE]
    /\ evOut' = Append(evOut, Out(current_channel, "Context compacted"))
    /\ dpc' = "idle"
    /\ inflight' = inflight - 1
    /\ UNCHANGED schedVars
    /\ UNCHANGED <<appended, ret, stopAsked, output_dir>>
    /\ UNCHANGED <<queue, nprod, alive, injected, cur, current_channel, session_file, threshold,
                   hist, tc, toolCalls, provCalls, processed>>

\* the lines replace_history writes for the messages (persistence.py:176-179)
Written(msgs, t) == [ i \in 1..Len(msgs) |-> Record(msgs[i], t) ]

\* Persistence.replace_history as one step (persistence.py:173-179), then the
\* report (engine.py:188-189): where the process does not stop in the middle,
\* no other thread reads the file and the steps in between are not observable
ReplaceAll ==
    /\ dpc = "replace"
    /\ ~rep.open
    /\ files' = [files EXCEPT ![session_file] = Written(rep.new, now)]
    /\ rep' = [rep EXCEPT !.active = FALSE, !.buf = Written(rep.new, now)]
    /\ evOut' = Append(evOut, Out(current_channel, "Context compacted"))
    /\ dpc' = "idle"
    /\ inflight' = inflight - 1
    /\ UNCHANGED schedVars
    /\ UNCHANGED <<appended, ret, stopAsked, output_dir>>
    /\ UNCHANGED <<queue, nprod, alive, injected, cur, current_channel, session_file, threshold,
                   hist, tc, toolCalls, provCalls, processed>>

\* the process stops (a kill, a power loss) while it compacts
Crash ==
    /\ dpc \in {"compact", "summarize", "replace"}
    /\ dpc' = "crashed"
    /\ UNCHANGED schedVars
    /\ UNCHANGED <<appended, ret, stopAsked, output_dir>>
    /\ UNCHANGED <<queue, nprod, alive, injected, cur, current_channel, session_file, files, threshold,
                   hist, rep, tc, toolCalls, evOut, provCalls, processed, inflight>>

\* the Engine's variables after construction, on a given store
EngineOn(store, withThreshold) ==
    /\ nprod = [c \in Channels |-> 0]
    /\ alive = [c \in Channels |-> FALSE]
    /\ injected = 0
    /\ dpc = "init"
    /\ cur = NoEvent
    /\ current_channel = 1
    /\ files = store
    /\ session_file = Len(store)
    /\ threshold = withThreshold
    /\ hist = NoHist
    /\ rep = NoRep
    /\ tc = ""
    /\ toolCalls = 0
    /\ evOut = <<>>
    /\ provCalls = 0
    /\ processed = [c \in Channels |-> <<>>]
    /\ inflight = 0
    /\ appended = [i \in 1..Len(store) |-> <<>>]
    /\ ret = NoCall
    /\ stopAsked = [c \in Channels |-> FALSE]
    /\ output_dir = 0

EngineIdle == EngineOn(<< <<>> >>, FALSE)

\* the Scheduler's variables after its construction on an empty task list
SchedulerEmpty ==
    /\ now = 0
    /\ savedTasks = <<>>
    /\ heap = <<>>
    /\ tasks = <<>>
    /\ nextId = 1
    /\ fired = <<>>
    /\ running = FALSE
    /\ spc = "off"
    /\ tick = NoTick
    /\ cbEnq = 0
    /\ orphan = NoThread

\* Persistence.__init__ (persistence.py:12-22) on an empty sessions directory:
\* a new session is started; a compaction threshold is configured
Init ==
    /\ SchedulerEmpty
    /\ queue = <<>>
    /\ EngineOn(<< <<>> >>, TRUE)

\* The Engine as it runs: the pollers and the run loop.  No task-fired event
\* reaches the queue (OnScheduledTaskRaises), and the Scheduler's tick touches
\* none of the Engine's variables; the Scheduler is SpecSched.
Next ==
    \/ RunStart
    \/ \E c \in Channels : PollChannel(c)
    \/ \E c \in Channels : PollerDies(c)
    \/ DispatchText
    \/ DispatchCommand
    \/ TitleCall
    \/ ModelCall
    \/ ToolExec
    \/ PostTurn
    \/ CompactLoad
    \/ Summarize
    \/ ReplaceAll

Spec == Init /\ [][Next]_vars

\* The run loop with task-fired events on its queue, among plain text from the
\* channels, on a store of two sessions: a task's session is the current one,
\* the other one, or none of the store.  No compaction threshold is configured
\* (context_compact_threshold = None, engine.py:18, 481); the compaction after
\* a turn is in Spec.
InitTask ==
    /\ SchedulerEmpty
    /\ queue = <<>>
    /\ EngineOn(<< <<>>, <<>> >>, FALSE)

NextTask ==
    \/ RunStart
    \/ \E c \in Channels : PollPlain(c)
    \/ EnqueueTaskFired
    \/ DispatchText
    \/ DispatchTask
    \/ TitleCall
    \/ ModelCall
    \/ ToolExec
    \/ PostTurn

SpecTask == InitTask /\ [][NextTask]_vars

(***************************************************************************)
(* The run loop with a Provider whose generate_response can raise.  The    *)
(* calls of the turn (engine.py:414) and of the compaction (engine.py:178) *)
(* are in no try block of Engine.run other than the one that catches       *)
(* KeyboardInterrupt (engine.py:303, 488-497): the exception leaves the    *)
(* while loop through the finally clause, which stops the Scheduler.       *)
(***************************************************************************)
ProviderRaises ==
    /\ dpc \in {"turn", "summarize"}
    /\ provCalls' = provCalls + 1
    /\ dpc' = "dead"
    /\ Shutdown
    /\ UNCHANGED <<now, tasks, heap, savedTasks, spc, tick, nextId, fired, cbEnq, orphan>>
    /\ UNCHANGED <<queue, nprod, alive, injected, cur, current_channel, session_file, files,
                   threshold, hist, rep, tc, toolCalls, evOut, processed, inflight, appended, ret, output_dir>>

NextErrors ==
    \/ Next
    \/ ProviderRaises

SpecErrors == Init /\ [][NextErrors]_vars

(***************************************************************************)
(* The run loop with the user's interrupt (engine.py:488-497), and the     *)
(* pollers in the time between the end of the loop and the end of the      *)
(* process.                                                                *)
(***************************************************************************)
\* KeyboardInterrupt reaches the run loop wherever it is: the notice goes to
\* every channel, then the finally clause runs
Interrupt ==
    /\ dpc \notin {"init", "stopped", "dead"}
    /\ dpc' = "stopped"
    /\ evOut' = evOut \o [c \in Channels |-> Out(c, "Interrupted by user")]
    /\ Shutdown
    /\ UNCHANGED <<now, tasks, heap, savedTasks, spc, tick, nextId, fired, cbEnq, orphan>>
    /\ UNCHANGED <<queue, nprod, alive, injected, cur, current_channel, session_file, files,
                   threshold, hist, rep, tc, toolCalls, provCalls, processed, inflight, appended, ret, output_dir>>

\* a poller puts an input on the queue after the run loop has ended
\* (engine.py:269-277)
PollLate(c) ==
    /\ alive[c]
    /\ dpc = "stopped"
    /\ TotalEvents < MaxEvents
    /\ queue' = QueuePut(queue, [channel |-> c, kind |-> "text", text |-> "hi", n |-> nprod[c] + 1])
    /\ nprod' = [nprod EXCEPT ![c] = @ + 1]
    /\ UNCHANGED schedVars
    /\ UNCHANGED <<alive, injected, dpc, cur, current_channel, session_file, files, threshold,
                   hist, rep, tc, toolCalls, evOut, provCalls, processed, inflight, appended, ret, stopAsked, output_dir>>

NextShutdown ==
    \/ Next
    \/ Interrupt
    \/ \E c \in Channels : PollLate(c)

SpecShutdown == Init /\ [][NextShutdown]_vars

(***************************************************************************)
(* The Providers' retry loop (providers/google_provider.py:125-186,        *)
(* providers/nano_gpt_provider.py:198-259) and the run loop's handling of  *)
(* what generate_response returns.                                         *)
(*                                                                         *)
(* What an attempt meets:                                                  *)
(*   ok         a well-formed answer                                       *)
(*   transient  google: an exception whose text has none of 400, 403, 404; *)
(*              nano_gpt: status 429, 500, 502, 503, 504 or a              *)
(*              requests.RequestException                                  *)
(*   permanent  google: an exception whose text has 400, 403 or 404;       *)
(*              nano_gpt: another status >= 400                            *)
(*   malformed  an answer without candidates or choices: IndexError, which *)
(*              google's except Exception takes for a failed attempt and   *)
(*              nano_gpt's except requests.RequestException does not catch *)
(***************************************************************************)
Providers == {"google", "nano_gpt"}
Outcomes == {"ok", "transient", "permanent", "malformed"}
Oracles == [1..OracleLen -> Outcomes]

\* a Provider that raises when its retries are used up
AfterLastRetryRaises(k) == [kind |-> "raise", attempts |-> k]

\* the return after the last retry has failed (google_provider.py:181-182,
\* nano_gpt_provider.py:218-223, 254-255)
AfterLastRetry(k) == [kind |-> "error", attempts |-> k]

\* the loop `for attempt in range(max_retries + 1)` from the given attempt on
RECURSIVE Attempt(_, _, _)
Attempt(p, o, attempt) ==
    IF attempt > max_retries
    THEN [kind |-> "error", attempts |-> attempt]
    ELSE LET out == o[attempt + 1]
         IN  CASE out = "ok" -> [kind |-> "text", attempts |-> attempt + 1]
               [] out = "permanent" -> [kind |-> "error", attempts |-> attempt + 1]
               [] out = "malformed" /\ p = "nano_gpt" -> [kind |-> "raise", attempts |-> attempt + 1]
               [] OTHER -> IF attempt < max_retries
                           THEN Attempt(p, o, attempt + 1)
                           ELSE AfterLastRetry(attempt + 1)

generate_response(p, o) == Attempt(p, o, 0)

\* the call of the turn (engine.py:409-414) and the handling of a text or of
\* an error string (engine.py:465-478); an exception leaves the loop through
\* the finally clause
ProviderCall ==
    /\ dpc = "turn"
    /\ \E p \in Providers, o \in Oracles :
          LET r == generate_response(p, o)
          IN  /\ ret' = [call |-> "generate_response", n |-> ret.n + 1, kind |-> r.kind,
                         attempts |-> r.attempts,
                         failing |-> \A i \in 1..OracleLen : o[i] = "transient"]
              /\ CASE r.kind = "text" ->
                        /\ files' = save_message(files, session_file, "assistant", Content("response", 0), now)
                        /\ evOut' = Append(evOut, Out(current_channel, "response"))
                        /\ dpc' = "post"
                        /\ UNCHANGED <<running, stopAsked>>
                   [] r.kind = "error" ->
                        /\ files' = save_message(files, session_file, "assistant",
                                                 Content("Error from Provider", 0), now)
                        /\ evOut' = Append(evOut, Out(current_channel, "Error from Provider"))
                        /\ dpc' = "post"
                        /\ UNCHANGED <<running, stopAsked>>
                   [] OTHER ->
                        /\ dpc' = "dead"
                        /\ Shutdown
                        /\ UNCHANGED <<files, evOut>>
    /\ provCalls' = provCalls + 1
    /\ tc' = ""
    /\ UNCHANGED <<now, tasks, heap, savedTasks, spc, tick, nextId, fired, cbEnq, orphan>>
    /\ UNCHANGED <<queue, nprod, alive, injected, cur, current_channel, session_file, threshold,
                   hist, rep, toolCalls, processed, inflight, appended, output_dir>>

NextProvider ==
    \/ RunStart
    \/ \E c \in Channels : PollPlain(c)
    \/ DispatchText
    \/ TitleCall
    \/ ProviderCall
    \/ PostTurn

InitProvider ==
    /\ SchedulerEmpty
    /\ queue = <<>>
    /\ EngineOn(<< <<>> >>, FALSE)

SpecProvider == InitProvider /\ [][NextProvider]_vars

(***************************************************************************)
(* The turn with a registered tool, statement by statement                 *)
(* (engine.py:409-453): the Provider call, the tool-call record, the       *)
(* injected arguments and the execution, the relay of the files the tool   *)
(* left in the workspace's output directory, the tool-result record.       *)
(***************************************************************************)
\* the arguments without the name of the channel
InjectNoChannel(args, c) ==
    [ k \in DOMAIN args \cup {"_workspace", "_scheduler"} |->
        CASE k = "_workspace" -> "workspace_dir"
          [] k = "_scheduler" -> "scheduler"
          [] OTHER -> args[k] ]

\* the arguments the tool is executed with (engine.py:431-440)
Inject(args, c) ==
    [ k \in DOMAIN args \cup {"_workspace", "_scheduler", "_channel_name"} |->
        CASE k = "_workspace" -> "workspace_dir"
          [] k = "_scheduler" -> "scheduler"
          [] k = "_channel_name" -> ChannelName(c)
          [] OTHER -> args[k] ]

\* the arguments of the Provider's tool call
ToolArgs == [q |-> "query"]

\* Engine._scan_and_send_output_files (engine.py:499-531): one send_file to
\* the active channel for every file of the output directory
RelayedFiles(n, c) == [ i \in 1..n |-> Out(c, "I've generated a file") ]

\* the Provider call of the turn with the history of the session
\* (engine.py:409-429, 465-478): it asks for a registered tool, or answers
ToolTurnCall ==
    /\ dpc = "turn"
    /\ ret' = [call |-> "generate_response", n |-> ret.n + 1,
               messages |-> load_history(files, session_file)]
    /\ \E r \in {"tool", "text"} :
          IF r = "tool"
          THEN /\ toolCalls < MaxToolCalls
               /\ files' = save_message(files, session_file, "model", Content("tool_call", 0), now)
               /\ tc' = "get_current_time"
               /\ toolCalls' = toolCalls + 1
               /\ dpc' = "tool"
               /\ UNCHANGED evOut
          ELSE /\ files' = save_message(files, session_file, "assistant", Content("response", 0), now)
               /\ evOut' = Append(evOut, Out(current_channel, "response"))
               /\ tc' = ""
               /\ dpc' = "post"
               /\ UNCHANGED toolCalls
    /\ provCalls' = provCalls + 1
    /\ UNCHANGED schedVars
    /\ UNCHANGED <<queue, nprod, alive, injected, cur, current_channel, session_file, threshold,
                   hist, rep, processed, inflight, appended, stopAsked, output_dir>>

\* the injection and the execution (engine.py:431-443, 454-458): the tool
\* writes files to the output directory, and returns or raises
ToolRun ==
    /\ dpc = "tool"
    /\ ret' = [call |-> "execute", n |-> ret.n + 1, args |-> Inject(ToolArgs, current_channel)]
    /\ \E k \in 0..(MaxOutFiles - output_dir), outcome \in {"returns", "raises"} :
          /\ output_dir' = output_dir + k
          /\ IF outcome = "returns"
             THEN /\ dpc' = "relay"
                  /\ UNCHANGED <<files, evOut>>
             ELSE /\ files' = save_message(files, session_file, "assistant",
                                           Content("Error executing tool", 0), now)
                  /\ evOut' = Append(evOut, Out(current_channel, "Error executing tool"))
                  /\ dpc' = "post"
    /\ UNCHANGED schedVars
    /\ UNCHANGED <<queue, nprod, alive, injected, cur, current_channel, session_file, threshold,
                   hist, rep, tc, toolCalls, provCalls, processed, inflight, appended, stopAsked>>

\* the scan of the output directory after the tool (engine.py:445-448)
ToolRelay ==
    /\ dpc = "relay"
    /\ evOut' = evOut \o RelayedFiles(output_dir, current_channel)
    /\ output_dir' = 0
    /\ dpc' = "result"
    /\ UNCHANGED schedVars
    /\ UNCHANGED <<queue, nprod, alive, injected, cur, current_channel, session_file, files, threshold,
                   hist, rep, tc, toolCalls, provCalls, processed, inflight, appended, ret, stopAsked>>

\* the tool-result record, and back to the Provider (engine.py:450-453)
ToolResult ==
    /\ dpc = "result"
    /\ files' = save_message(files, session_file, "tool", Content("tool_result", 0), now)
    /\ tc' = ""
    /\ dpc' = "turn"
    /\ UNCHANGED schedVars
    /\ UNCHANGED <<queue, nprod, alive, injected, cur, current_channel, session_file, threshold,
                   hist, rep, toolCalls, evOut, provCalls, processed, inflight, appended, ret, stopAsked,
                   output_dir>>

NextTool ==
    \/ RunStart
    \/ \E c \in Channels : PollPlain(c)
    \/ DispatchText
    \/ TitleCall
    \/ ToolTurnCall
    \/ ToolRun
    \/ ToolRelay
    \/ ToolResult
    \/ PostTurn

InitTool ==
    /\ SchedulerEmpty
    /\ queue = <<>>
    /\ EngineOn(<< <<>> >>, FALSE)

SpecTool == InitTool /\ [][NextTool]_vars

(***************************************************************************)
(* The final text response (engine.py:465-478).  A text is a sequence of   *)
(* characters.                                                             *)
(***************************************************************************)
Whitespace == {" ", "\n"}
Chars == {" ", "\n", "_", ".", "a"}
FinalTexts == UNION { [1..n -> Chars] : n \in 0..MaxLen }

\* str.strip(): the text without its leading and trailing whitespace
RECURSIVE lstrip(_)
lstrip(t) == IF t # <<>> /\ Head(t) \in Whitespace THEN lstrip(Tail(t)) ELSE t

RECURSIVE rstrip(_)
rstrip(t) ==
    IF t # <<>> /\ t[Len(t)] \in Whitespace THEN rstrip(SubSeq(t, 1, Len(t) - 1)) ELSE t

strip(t) == rstrip(lstrip(t))

\* a test that compares the text as it is
is_silent_untrimmed(response) == response \in { <<>>, <<"_">>, <<".">> }

\* is_silent (engine.py:466)
is_silent(response) == strip(response) \in { <<>>, <<"_">>, <<".">> }

\* `not is_silent and response` (engine.py:467): an empty text is falsy
IsSent(response) == ~is_silent(response) /\ response # <<>>

\* the content of the assistant message with the text
TextContent(text) == [tag |-> "response", n |-> 0, text |-> text]

\* the Provider's final response, a text, and its handling (engine.py:409-416,
\* 465-478)
FinalResponse ==
    /\ dpc = "turn"
    /\ \E response \in FinalTexts :
          /\ ret' = [call |-> "generate_response", n |-> ret.n + 1, text |-> response]
          /\ IF IsSent(response)
             THEN /\ evOut' = Append(evOut, Out(current_channel, response))
                  /\ files' = save_message(files, session_file, "assistant", TextContent(response), now)
             ELSE UNCHANGED <<evOut, files>>
    /\ provCalls' = provCalls + 1
    /\ tc' = ""
    /\ dpc' = "post"
    /\ UNCHANGED schedVars
    /\ UNCHANGED <<queue, nprod, alive, injected, cur, current_channel, session_file, threshold,
                   hist, rep, toolCalls, processed, inflight, appended, stopAsked, output_dir>>

NextFinal ==
    \/ RunStart
    \/ \E c \in Channels : TotalEvents < MaxThreadEvents /\ PollPlain(c)
    \/ DispatchText
    \/ TitleCall
    \/ FinalResponse
    \/ PostTurn

InitFinal ==
    /\ SchedulerEmpty
    /\ queue = <<>>
    /\ EngineOn(<< <<>> >>, FALSE)

SpecFinal == InitFinal /\ [][NextFinal]_vars

(***************************************************************************)
(* File attachments (engine.py:308-332): a channel's get_input returns a   *)
(* FileAttachment (core/channel.py:5-11) with a mime type and a caption,   *)
(* either of which can be None.                                            *)
(***************************************************************************)
NoMime == "None"
NoCaption == "None"
MimeTypes == {"audio/ogg", "image/png", "text/csv", NoMime}
Captions == {"look", NoCaption}

\* Engine._poll_channel (engine.py:269-277) for a channel that hands in files
PollFile(c) ==
    /\ alive[c]
    /\ dpc # "stopped"
    /\ TotalEvents < MaxEvents
    /\ \E mime \in MimeTypes, caption \in Captions :
          queue' = QueuePut(queue, [channel |-> c, kind |-> "file", mime_type |-> mime,
                                    caption |-> caption, n |-> nprod[c] + 1])
    /\ nprod' = [nprod EXCEPT ![c] = @ + 1]
    /\ UNCHANGED schedVars
    /\ UNCHANGED <<alive, injected, dpc, cur, current_channel, session_file, files, threshold,
                   hist, rep, tc, toolCalls, evOut, provCalls, processed, inflight, appended, ret, stopAsked, output_dir>>

\* parts (engine.py:315-317): the caption text, if any, then the file
FileParts(ev) ==
    (IF ev.caption # NoCaption THEN << [text |-> ev.caption] >> ELSE << >>)
        \o << [file_path |-> ev.n, mime_type |-> ev.mime_type] >>

\* the user message of the upload (engine.py:320): its content is the caption
\* or "[Uploaded <name>]"; the parts are kept with the content
FileContent(ev) ==
    [tag |-> IF ev.caption # NoCaption THEN ev.caption ELSE "Uploaded", n |-> ev.n,
     parts |-> FileParts(ev)]

\* a loop that enters the turn for media files only
ProceedsForMediaOnly(ev) == ev.mime_type \in {"audio/ogg", "image/png"}

\* is_audio or is_image or user_input.caption (engine.py:322-325)
ProceedsToTurn(ev) ==
    \/ ev.mime_type = "audio/ogg"
    \/ ev.mime_type = "image/png"
    \/ ev.caption # NoCaption

\* a handler that keeps no record of a plain upload besides the user message
FileSavedUserOnly(fs, sf, ev, t) == save_message(fs, sf, "user", FileContent(ev), t)

\* the session files after the handling of the attachment (engine.py:320-331)
FileSaved(fs, sf, ev, t) ==
    IF ProceedsToTurn(ev)
    THEN save_message(fs, sf, "user", FileContent(ev), t)
    ELSE save_message(save_message(fs, sf, "user", FileContent(ev), t),
                      sf, "system", Content("SYSTEM: User uploaded file", ev.n), t)

\* a file attachment (engine.py:308-332), up to the turn or back to the queue
DispatchFile ==
    /\ LoopAtGet
    /\ queue # <<>>
    /\ Head(queue).kind = "file"
    /\ LET ev == Head(queue)
       IN  /\ TakeEvent(ev)
           /\ files' = FileSaved(files, session_file, ev, now)
           /\ evOut' = <<>>
           /\ processed' = [processed EXCEPT ![ev.channel] = Append(@, ev.n)]
           /\ IF ProceedsToTurn(ev)
              THEN dpc' = "turn" /\ inflight' = inflight + 1
              ELSE dpc' = "idle" /\ inflight' = inflight
    /\ UNCHANGED schedVars
    /\ UNCHANGED <<nprod, alive, injected, session_file, threshold, hist, rep, tc, appended, ret, stopAsked, output_dir>>

NextFile ==
    \/ RunStart
    \/ \E c \in Channels : PollFile(c)
    \/ DispatchFile
    \/ ModelCall
    \/ ToolExec
    \/ PostTurn

InitFile ==
    /\ SchedulerEmpty
    /\ queue = <<>>
    /\ EngineOn(<< <<>> >>, FALSE)

SpecFile == InitFile /\ [][NextFile]_vars

(***************************************************************************)
(* The check after the turn with the Provider's usage (engine.py:480-486), *)
(* for texts, commands and file attachments, with and without a configured *)
(* threshold.                                                              *)
(***************************************************************************)
\* the configured context_compact_threshold (main.py:79), in tokens
ThresholdTokens == 1

\* a check that compacts from the threshold on
ExceedsFromThreshold(total_tokens) == total_tokens >= ThresholdTokens

\* total_tokens > self.context_compact_threshold (engine.py:484)
Exceeds(total_tokens) == total_tokens > ThresholdTokens

\* the check (engine.py:480-486): without a threshold the usage is not read
AutoCompactCheck ==
    /\ dpc = "post"
    /\ IF threshold
       THEN \E total_tokens \in 0..MaxTokens :
               /\ ret' = [call |-> "get_usage", n |-> ret.n + 1, total_tokens |-> total_tokens]
               /\ IF Exceeds(total_tokens)
                  THEN /\ dpc' = "compact"
                       /\ UNCHANGED inflight
                  ELSE /\ dpc' = "idle"
                       /\ inflight' = inflight - 1
       ELSE /\ dpc' = "idle"
            /\ inflight' = inflight - 1
            /\ UNCHANGED ret
    /\ UNCHANGED schedVars
    /\ UNCHANGED <<queue, nprod, alive, injected, cur, current_channel, session_file, files, threshold,
                   hist, rep, tc, toolCalls, evOut, provCalls, processed, appended, stopAsked, output_dir>>

\* the Engine constructed with or without a threshold, on a session that is
\* new or long enough to be compacted
InitAuto ==
    /\ SchedulerEmpty
    /\ queue = <<>>
    /\ \E withThreshold \in BOOLEAN, n \in {0, KeepLast + 1} :
          EngineOn(<< [ i \in 1..n |->
                          Record(Msg(IF i % 2 = 1 THEN "user" ELSE "assistant", Content("Turn", i)), 0) ] >>,
                   withThreshold)

\* One channel, whose user types a text, a command or the compaction command,
\* or hands in an image or a file of no known type, without captions; the
\* Provider answers every turn at once (with a text, a silent text, or the
\* name of a tool that does not exist).
NextAuto ==
    \/ RunStart
    \/ PollFrom(1, {"hi", "/bogus", "/compact"})
    \/ /\ PollFile(1)
       /\ queue'[Len(queue')].caption = NoCaption
       /\ queue'[Len(queue')].mime_type \in {"image/png", NoMime}
    \/ DispatchText
    \/ DispatchCommand
    \/ DispatchFile
    \/ TitleCall
    \/ ModelCall /\ dpc' = "post"
    \/ AutoCompactCheck
    \/ CompactLoad
    \/ Summarize
    \/ ReplaceAll

SpecAuto == InitAuto /\ [][NextAuto]_vars

(***************************************************************************)
(* Persistence on its own: its callers start sessions, append messages,    *)
(* set titles and switch between the sessions in any order.                *)
(***************************************************************************)
\* the records in all session files
RECURSIVE TotalRecords(_, _)
TotalRecords(fs, n) == IF n = 0 THEN 0 ELSE Len(fs[n]) + TotalRecords(fs, n - 1)

storeOthers == <<nprod, alive, injected, dpc, cur, current_channel, threshold, hist, rep, tc,
                 toolCalls, evOut, provCalls, processed, inflight, ret, stopAsked, output_dir>>

\* Persistence.start_new_session(title) (persistence.py:32-43)
StoreNewSession ==
    /\ Len(files) < MaxSessions
    /\ \E titled \in BOOLEAN :
          /\ titled => TotalRecords(files, Len(files)) < MaxRecords
          /\ files' = IF titled
                      THEN set_session_title(start_new_session(files), Len(files) + 1,
                                             Content("title", 0), now)
                      ELSE start_new_session(files)
    /\ session_file' = Len(files) + 1
    /\ appended' = Append(appended, <<>>)
    /\ UNCHANGED <<schedVars, queue, storeOthers>>

\* Persistence.save_message (persistence.py:55-71) on the current session
StoreSave ==
    /\ TotalRecords(files, Len(files)) < MaxRecords
    /\ \E role \in {"user", "assistant"}, n \in 1..2 :
          /\ files' = save_message(files, session_file, role, Content("m", n), now)
          /\ appended' = [appended EXCEPT ![session_file] = Append(@, Msg(role, Content("m", n)))]
    /\ UNCHANGED <<schedVars, queue, storeOthers, session_file>>

\* Persistence.set_session_title (persistence.py:73-82) on the current session
StoreTitle ==
    /\ TotalRecords(files, Len(files)) < MaxRecords
    /\ files' = set_session_title(files, session_file, Content("title", 1), now)
    /\ UNCHANGED <<schedVars, queue, storeOthers, session_file, appended>>

\* Persistence.switch_session(index) (persistence.py:116-124), with any index
StoreSwitch ==
    /\ \E index \in -1..Len(files) :
          session_file' = switch_session(files, session_file, index)
    /\ UNCHANGED <<schedVars, queue, storeOthers, files, appended>>

InitStore ==
    /\ SchedulerEmpty
    /\ queue = <<>>
    /\ EngineOn(<< <<>> >>, FALSE)

NextStore ==
    \/ StoreNewSession
    \/ StoreSave
    \/ StoreTitle
    \/ StoreSwitch

SpecStore == InitStore /\ [][NextStore]_vars

(***************************************************************************)
(* Compaction on its own: _handle_compact is called on a session with any  *)
(* history of up to MaxHist messages, with or without a title record; the  *)
(* file is rewritten write by write, and the process may stop at any point.*)
(***************************************************************************)
\* message i of the history: "Turn i", user and assistant alternating
TurnRecord(i) ==
    Record(Msg(IF i % 2 = 1 THEN "user" ELSE "assistant", Content("Turn", i)), 0)

Turns(n) == [ i \in 1..n |-> TurnRecord(i) ]

\* the log with a title record before message p
WithTitleAt(log, p) ==
    SubSeq(log, 1, p - 1) \o <<Meta(Content("title", 0), 0)>> \o SubSeq(log, p, Len(log))

Histories ==
    { Turns(n) : n \in 0..MaxHist }
    \cup UNION { { WithTitleAt(Turns(n), p) : p \in {1, n + 1} } : n \in 0..MaxHist }

InitCompact ==
    /\ SchedulerEmpty
    /\ queue = <<>>
    /\ nprod = [c \in Channels |-> IF c = 1 THEN 1 ELSE 0]
    /\ alive = [c \in Channels |-> TRUE]
    /\ injected = 0
    /\ dpc = "compact"
    /\ cur = [channel |-> 1, kind |-> "text", text |-> "/compact", n |-> 1]
    /\ current_channel = 1
    /\ \E log \in Histories : files = << log >>
    /\ session_file = 1
    /\ threshold = FALSE
    /\ hist = NoHist
    /\ rep = NoRep
    /\ tc = ""
    /\ toolCalls = 0
    /\ evOut = <<>>
    /\ provCalls = 0
    /\ processed = [c \in Channels |-> IF c = 1 THEN <<1>> ELSE <<>>]
    /\ inflight = 1
    /\ appended = << <<>> >>
    /\ ret = NoCall
    /\ stopAsked = [c \in Channels |-> FALSE]
    /\ output_dir = 0

NextCompact ==
    \/ AdvanceClock
    \/ CompactLoad
    \/ Summarize
    \/ ReplaceOpen
    \/ ReplaceWrite
    \/ ReplaceClose
    \/ Crash

SpecCompact == InitCompact /\ [][NextCompact]_vars

(***************************************************************************)
(* The Scheduler on its own: constructed on any persisted task list        *)
(* (Scheduler.__init__, _load_tasks, scheduler.py:65-76), started, and      *)
(* used through add_task and remove_task by another thread.                *)
(***************************************************************************)
TaskDicts(id) ==
    { [id |-> id, prompt |-> id, session_file |-> 1, trigger_type |-> "at",
       trigger_value |-> v, next_run |-> n] :
         v \in AtValues, n \in {None} }
    \cup
    { [id |-> id, prompt |-> id, session_file |-> 1, trigger_type |-> "cron",
       trigger_value |-> v, next_run |-> n] :
         v \in CronExprs, n \in {None, 1} }

PersistedLists ==
    UNION { { [ i \in 1..n |-> f[i] ] : f \in { g \in [1..n -> UNION { TaskDicts(k) : k \in 1..n }] :
                                                 \A i \in 1..n : g[i].id = i } } : n \in 0..MaxTasks }

load_tasks(saved, t) == [ i \in 1..Len(saved) |-> from_dict(saved[i], t) ]

InitSched ==
    /\ now = 0
    /\ savedTasks \in PersistedLists
    /\ heap = load_tasks(savedTasks, now)
    /\ tasks = [ i \in 1..Len(savedTasks) |-> savedTasks[i].id ]
    /\ nextId = Len(savedTasks) + 1
    /\ fired = [ i \in 1..Len(savedTasks) |-> 0 ]
    /\ running = FALSE
    /\ spc = "off"
    /\ tick = NoTick
    /\ cbEnq = 0
    /\ orphan = NoThread
    /\ queue = <<>>
    /\ EngineIdle

NextSched ==
    \/ AdvanceClock
    \/ SchedStart
    \/ TickBegin
    \/ TickCheck
    \/ TickAfter
    \/ TickEnd
    \/ ApiAddTask
    \/ ApiAddCron
    \/ ApiRemoveTask

SpecSched == InitSched /\ [][NextSched]_vars

\* The Scheduler's thread alone: no other thread calls add_task or remove_task
NextTick ==
    \/ AdvanceClock
    \/ SchedStart
    \/ TickBegin
    \/ TickCheck
    \/ TickAfter
    \/ TickEnd

SpecTick == InitSched /\ [][NextTick]_vars

(***************************************************************************)
(* The Scheduler's thread with stop() called by another thread             *)
(* (scheduler.py:90-94, 121-128).                                          *)
(***************************************************************************)
\* Scheduler.stop (scheduler.py:90-94): the flag is cleared, the thread is not
\* joined
SchedStop ==
    /\ spc # "off"
    /\ running
    /\ ret.n < MaxCalls
    /\ running' = FALSE
    /\ ret' = [call |-> "stop", n |-> ret.n + 1]
    /\ UNCHANGED <<now, tasks, heap, savedTasks, spc, tick, nextId, fired, cbEnq, orphan, queue>>
    /\ UNCHANGED <<nprod, alive, injected, dpc, cur, current_channel, session_file, files, threshold,
                   hist, rep, tc, toolCalls, evOut, provCalls, processed, inflight, appended, stopAsked, output_dir>>

\* `while self.running` is false after the sleep (scheduler.py:123, 128): the
\* thread ends
LoopExit ==
    /\ spc = "sleep"
    /\ ~running
    /\ spc' = "off"
    /\ UNCHANGED <<now, tasks, heap, savedTasks, running, tick, nextId, fired, cbEnq, orphan, queue>>
    /\ UNCHANGED engineVars

NextStop ==
    \/ AdvanceClock
    \/ SchedStart
    \/ TickBegin
    \/ TickCheck
    \/ TickAfter
    \/ TickEnd
    \/ SchedStop
    \/ LoopExit

SpecStop == InitSched /\ [][NextStop]_vars

(***************************************************************************)
(* start() and stop() called in any order (scheduler.py:82-94).  start()   *)
(* makes a new thread whenever the flag is clear, whether or not the       *)
(* thread of an earlier start() has ended; spc and tick belong to the      *)
(* thread that takes the next step, orphan to the other one.               *)
(***************************************************************************)
\* Scheduler.start (scheduler.py:82-88)
CallStart ==
    /\ ret.n < MaxCalls
    /\ ret' = [call |-> "start", n |-> ret.n + 1, started |-> ~running]
    /\ IF running
       THEN UNCHANGED <<running, spc, tick, orphan>>
       ELSE /\ running' = TRUE
            /\ spc' = "sleep"
            /\ tick' = NoTick
            /\ IF spc = "off"
               THEN UNCHANGED orphan
               ELSE /\ orphan.spc = "off"
                    /\ orphan' = [spc |-> spc, tick |-> tick]
    /\ UNCHANGED <<now, tasks, heap, savedTasks, nextId, fired, cbEnq, queue>>
    /\ UNCHANGED <<nprod, alive, injected, dpc, cur, current_channel, session_file, files, threshold,
                   hist, rep, tc, toolCalls, evOut, provCalls, processed, inflight, appended, stopAsked,
                   output_dir>>

\* the interpreter switches to the other _run_loop thread
ContextSwitch ==
    /\ orphan.spc # "off"
    /\ orphan' = [spc |-> spc, tick |-> tick]
    /\ spc' = orphan.spc
    /\ tick' = orphan.tick
    /\ UNCHANGED <<now, tasks, heap, savedTasks, running, nextId, fired, cbEnq, queue>>
    /\ UNCHANGED engineVars

NextStartStop ==
    \/ AdvanceClock
    \/ CallStart
    \/ SchedStop
    \/ TickBegin
    \/ TickCheck
    \/ TickAfter
    \/ TickEnd
    \/ LoopExit
    \/ ContextSwitch

SpecStartStop == InitSched /\ [][NextStartStop]_vars

(***************************************************************************)
(* The three kinds of threads together: the pollers, the Scheduler's tick  *)
(* thread with the firing callback, and the run loop.  The Scheduler has   *)
(* loaded a one-shot task, which is due.                                   *)
(***************************************************************************)
LoadedTasks ==
    << [id |-> 1, prompt |-> 1, session_file |-> 1, trigger_type |-> "at",
        trigger_value |-> [at |-> 1], next_run |-> None] >>

InitThreads ==
    /\ now = 1
    /\ savedTasks = LoadedTasks
    /\ heap = load_tasks(savedTasks, now)
    /\ tasks = [ i \in 1..Len(savedTasks) |-> savedTasks[i].id ]
    /\ nextId = Len(savedTasks) + 1
    /\ fired = [ i \in 1..Len(savedTasks) |-> 0 ]
    /\ running = FALSE
    /\ spc = "off"
    /\ tick = NoTick
    /\ cbEnq = 0
    /\ orphan = NoThread
    /\ queue = <<>>
    /\ EngineIdle

NextThreads ==
    \/ RunStart
    \/ TickBegin
    \/ TickCheck
    \/ TickAfter
    \/ TickEnd
    \/ \E c \in Channels : TotalEvents < MaxThreadEvents /\ PollPlain(c)
    \/ DispatchText
    \/ TitleCall
    \/ ModelCall
    \/ ToolExec
    \/ PostTurn

SpecThreads == InitThreads /\ [][NextThreads]_vars

(***************************************************************************)
(* The Scheduler's interface and the schedule_task tool                    *)
(* (tools/schedule_task.py), called while a turn is in progress, and the   *)
(* construction of a new Scheduler on the same storage.                    *)
(***************************************************************************)
\* the 'when' argument: an ISO instant, "in <n> <unit>", or something else
WhenValues == { [kind |-> "iso", v |-> 1], [kind |-> "in", v |-> 1], [kind |-> "bad", v |-> 0] }

\* the arguments the Provider passes to schedule_task: prompt, and when or
\* cron or neither
ScheduleArgs ==
    { [prompt |-> 1] }
    \cup { [prompt |-> 1, when |-> w] : w \in WhenValues }
    \cup { [prompt |-> 1, cron |-> c] : c \in CronExprs }

\* trigger type and value as the tool derives them (schedule_task.py:45-81),
\* or the return of an error string
ScheduleTrigger(a, t) ==
    IF "cron" \in DOMAIN a
    THEN [ok |-> TRUE, type |-> "cron", value |-> a.cron]
    ELSE IF "when" \in DOMAIN a
         THEN CASE a.when.kind = "in" -> [ok |-> TRUE, type |-> "at", value |-> [at |-> t + a.when.v]]
                [] a.when.kind = "iso" -> [ok |-> TRUE, type |-> "at", value |-> [at |-> a.when.v]]
                [] OTHER -> [ok |-> FALSE]
         ELSE [ok |-> FALSE]

\* the parameters of Scheduler.add_task (scheduler.py:96)
AddTaskParams == {"prompt", "session_file", "trigger_type", "trigger_value"}

\* the arguments of the tool's call of add_task (schedule_task.py:83); a
\* keyword that add_task does not have raises TypeError
ScheduleTaskPasses == {"prompt", "session_file", "trigger_type", "trigger_value", "channel_name"}

taskOthers == <<nprod, alive, injected, cur, current_channel, session_file, threshold, hist, rep,
                evOut, processed, inflight, appended, stopAsked, output_dir>>

\* the Provider asks for schedule_task (engine.py:409-429)
RequestTaskTool ==
    /\ dpc = "turn"
    /\ ret.n < MaxCalls
    /\ \E a \in ScheduleArgs : tc' = [name |-> "schedule_task", args |-> a]
    /\ files' = save_message(files, session_file, "model", Content("tool_call", 0), now)
    /\ toolCalls' = toolCalls + 1
    /\ provCalls' = provCalls + 1
    /\ dpc' = "tool"
    /\ UNCHANGED <<schedVars, queue, taskOthers, ret>>

\* the execution of schedule_task (engine.py:436-451, schedule_task.py:27-89):
\* every exception of the tool's body is caught in the tool and returned as an
\* error string
ExecScheduleTask ==
    /\ dpc = "tool"
    /\ tc.name = "schedule_task"
    /\ LET trig == ScheduleTrigger(tc.args, now)
       IN  IF trig.ok /\ ScheduleTaskPasses \subseteq AddTaskParams
           THEN /\ add_task(session_file, trig.type, trig.value)
                /\ ret' = [call |-> "schedule_task", n |-> ret.n + 1, valid |-> TRUE,
                           value |-> "Task scheduled successfully"]
           ELSE /\ UNCHANGED <<heap, tasks, savedTasks, fired, nextId>>
                /\ ret' = [call |-> "schedule_task", n |-> ret.n + 1, valid |-> trig.ok,
                           value |-> IF trig.ok THEN "Error scheduling task" ELSE "Error"]
    /\ files' = save_message(files, session_file, "tool", Content("tool_result", 0), now)
    /\ tc' = ""
    /\ dpc' = "turn"
    /\ UNCHANGED <<now, running, spc, tick, cbEnq, orphan, queue, taskOthers, toolCalls, provCalls>>

\* Scheduler.add_task called directly
CallAddTask ==
    /\ ret.n < MaxCalls
    /\ \E type \in {"at", "cron"} :
          \E v \in (IF type = "at" THEN AtValues ELSE CronExprs) :
             add_task(session_file, type, v)
    /\ ret' = [call |-> "add_task", n |-> ret.n + 1, id |-> nextId]
    /\ UNCHANGED <<now, running, spc, tick, cbEnq, orphan, queue, taskOthers,
                   dpc, tc, files, toolCalls, provCalls>>

\* Scheduler.remove_task called directly, with the id of a task or another id
CallRemoveTask ==
    /\ ret.n < MaxCalls
    /\ \E id \in 1..MaxIds :
          /\ remove_task(id)
          /\ ret' = [call |-> "remove_task", n |-> ret.n + 1, id |-> id, value |-> InSeq(tasks, id)]
    /\ UNCHANGED <<now, heap, running, spc, tick, nextId, fired, cbEnq, orphan, queue, taskOthers,
                   dpc, tc, files, toolCalls, provCalls>>

\* Scheduler.__init__ on the same storage (scheduler.py:65-76): the tasks are
\* the stored dicts, each through from_dict
SchedulerRestart ==
    /\ ret.n < MaxCalls
    /\ heap' = [ id \in { savedTasks[i].id : i \in 1..Len(savedTasks) } |->
                    from_dict(savedTasks[CHOOSE i \in 1..Len(savedTasks) : savedTasks[i].id = id], now) ]
    /\ tasks' = [ i \in 1..Len(savedTasks) |-> savedTasks[i].id ]
    /\ running' = FALSE
    /\ spc' = "off"
    /\ tick' = NoTick
    /\ ret' = [call |-> "Scheduler", n |-> ret.n + 1]
    /\ UNCHANGED <<now, savedTasks, nextId, fired, cbEnq, orphan, queue, taskOthers,
                   dpc, tc, files, toolCalls, provCalls>>

\* a Scheduler on an empty storage, and the run loop in a turn
InitTasks ==
    /\ SchedulerEmpty
    /\ queue = <<>>
    /\ nprod = [c \in Channels |-> IF c = 1 THEN 1 ELSE 0]
    /\ alive = [c \in Channels |-> TRUE]
    /\ injected = 0
    /\ dpc = "turn"
    /\ cur = [channel |-> 1, kind |-> "text", text |-> "hi", n |-> 1]
    /\ current_channel = 1
    /\ files = << << Record(Msg("user", Content("hi", 1)), 0) >> >>
    /\ session_file = 1
    /\ threshold = FALSE
    /\ hist = NoHist
    /\ rep = NoRep
    /\ tc = ""
    /\ toolCalls = 0
    /\ evOut = <<>>
    /\ provCalls = 0
    /\ processed = [c \in Channels |-> IF c = 1 THEN <<1>> ELSE <<>>]
    /\ inflight = 1
    /\ appended = << <<>> >>
    /\ ret = NoCall
    /\ stopAsked = [c \in Channels |-> FALSE]
    /\ output_dir = 0

NextTasks ==
    \/ AdvanceClock
    \/ RequestTaskTool
    \/ ExecScheduleTask
    \/ CallAddTask
    \/ CallRemoveTask
    \/ SchedulerRestart

SpecTasks == InitTasks /\ [][NextTasks]_vars

(***************************************************************************)
(* The Scheduler's thread with remove_task and add_task called on the run  *)
(* loop's thread (tools/delete_task.py:18-40, tools/schedule_task.py),     *)
(* their returns on record.                                                *)
(***************************************************************************)
NextRemove ==
    \/ AdvanceClock
    \/ SchedStart
    \/ TickBegin
    \/ TickCheck
    \/ TickAfter
    \/ TickEnd
    \/ CallAddTask
    \/ CallRemoveTask

SpecRemove == InitSched /\ [][NextRemove]_vars

(***************************************************************************)
(* The Scheduler's thread in a process that can stop at any point, after   *)
(* which a new process constructs its Scheduler on the stored list         *)
(* (scheduler.py:65-76).                                                   *)
(***************************************************************************)
NextRestart ==
    \/ AdvanceClock
    \/ SchedStart
    \/ TickBegin
    \/ TickCheck
    \/ TickAfter
    \/ TickEnd
    \/ SchedulerRestart

SpecRestart == InitSched /\ [][NextRestart]_vars

(***************************************************************************)
(* Properties of the Scheduler.                                            *)
(***************************************************************************)
TaskIds == DOMAIN heap

\* the task the tick is at
TickTask == tick.snap[tick.idx]

\* whether the instant of a one-shot task has been reached at time t, read off
\* the task itself
InstantReached(id, t) ==
    /\ heap[id].trigger_type = "at"
    /\ heap[id].next_run >= 0
    /\ heap[id].next_run <= t

\* C3: an 'at' task whose instant has been reached fires exactly once: the tick
\* that finds it due invokes the callback for it, the task has left the active
\* list as soon as that tick is done with it, and no later tick fires it again.
C3_AtFiresExactlyOnce ==
    \A id \in TaskIds :
        heap[id].trigger_type = "at" =>
            /\ fired[id] <= 1
            /\ (fired[id] = 1 /\ InSeq(tasks, id)) => (spc = "after" /\ TickTask = id)
            /\ \A j \in 1..Len(tick.snap) :
                   (tick.snap[j] = id /\ j < tick.idx /\ InstantReached(id, tick.now))
                       => (fired[id] = 1 /\ ~InSeq(tasks, id))

\* a one-shot task has fired and is gone, and a later tick has started at a
\* time at which its instant is still reached
C3_Witness ==
    \E id \in TaskIds :
        /\ heap[id].trigger_type = "at"
        /\ fired[id] = 1
        /\ ~InSeq(tasks, id)
        /\ spc = "iter"
        /\ ~InSeq(tick.snap, id)
        /\ InstantReached(id, tick.now)

\* the step in which the tick reschedules the cron task it has just fired
CronRescheduleStep ==
    /\ spc = "after"
    /\ spc' # "after"
    /\ heap[TickTask].trigger_type = "cron"

\* C4 as stated: after every firing of a cron task its next_run is strictly
\* later than its previous next_run and than the tick's now, and the task is
\* still in the list.
C4_Original ==
    [][ CronRescheduleStep =>
          /\ heap'[TickTask].next_run > heap[TickTask].next_run
          /\ heap'[TickTask].next_run > tick.now
          /\ InSeq(tasks, TickTask) <=> InSeq(tasks', TickTask) ]_vars

\* C4, amended: when the recomputation succeeds, next_run becomes strictly later
\* than the previous next_run and than the tick's now; when it fails next_run
\* stays as it was; in both cases the tick does not remove the task.
C4_CronAdvances ==
    [][ CronRescheduleStep =>
          /\ CronHasNext(heap[TickTask].trigger_value, tick.now) =>
                /\ heap'[TickTask].next_run > heap[TickTask].next_run
                /\ heap'[TickTask].next_run > tick.now
          /\ ~CronHasNext(heap[TickTask].trigger_value, tick.now) =>
                heap'[TickTask].next_run = heap[TickTask].next_run
          /\ InSeq(tasks, TickTask) <=> InSeq(tasks', TickTask) ]_vars

\* a cron task has fired twice, was rescheduled in between, and is in the list
C4_Witness ==
    \E id \in TaskIds :
        /\ heap[id].trigger_type = "cron"
        /\ fired[id] = 2
        /\ heap[id].next_run > tick.now
        /\ spc = "iter"
        /\ InSeq(tasks, id)

(***************************************************************************)
(* Properties of the run loop.                                             *)
(***************************************************************************)
\* an event has been taken off the queue and its handling has not finished
InFlight == dpc \notin {"init", "idle", "stopped"}

IsPrefix(s, t) == Len(s) <= Len(t) /\ SubSeq(t, 1, Len(s)) = s

\* C1: at most one turn is in flight: from the step that takes an event off the
\* queue until its command or turn has finished (title request, Provider calls,
\* tool executions, compaction after the turn), the event being handled stays
\* the same, no further event leaves the queue and none is processed, while
\* the pollers go on appending to the queue.
C1_OneTurnInFlight ==
    [][ /\ inflight' <= 1
        /\ InFlight =>
              /\ cur' = cur
              /\ processed' = processed
              /\ IsPrefix(queue, queue') ]_vars

\* a tool runs for one event while another event waits on the queue
C1_Witness ==
    /\ dpc = "tool"
    /\ inflight = 1
    /\ provCalls >= 1
    /\ queue # <<>>

C5_CallbackEnqueuesOne ==
    [][ \A id \in TaskIds :
            fired'[id] = fired[id] + 1 =>
                /\ Len(queue') = Len(queue) + 1
                /\ queue'[Len(queue')].kind = "task"
                /\ queue'[Len(queue')].task = heap[id]
                /\ queue'[Len(queue')].channel = TargetChannel(heap[id]) ]_vars

\* the step in which the run loop takes a task-fired event off the queue and
\* handles it up to the turn
TaskEventStep ==
    /\ dpc = "idle"
    /\ dpc' # "idle"
    /\ queue # <<>>
    /\ Head(queue).kind = "task"

\* the session the task-fired event at the head of the queue belongs to
OwningSession == Head(queue).task.session_file

\* whether that session is among the stored ones, read off the store
OwningSessionStored == OwningSession \in 1..Len(files)

\* the record of the task's prompt
PromptRecord(t) ==
    [type |-> "message", role |-> "user",
     content |-> [tag |-> "Scheduled Task", n |-> Head(queue).task.prompt], timestamp |-> t]

\* C6: a task-fired event whose owning session differs from the current one and
\* is not among the stored sessions leaves the current session as it was: no
\* session is added, and the prompt message is appended to the log of that
\* unchanged current session.
C6_StaysInCurrentSession ==
    [][ (TaskEventStep /\ OwningSession # session_file /\ ~OwningSessionStored) =>
            /\ session_file' = session_file
            /\ Len(files') = Len(files)
            /\ files'[session_file] = Append(files[session_file], PromptRecord(now)) ]_vars

\* C7: a task-fired event whose owning session exists makes that session the
\* current one, appends exactly one user message with the task's prompt to its
\* log and to no other, adds no session, and enters the turn, which goes on
\* only through a call of the Provider.
C7_TaskEntersTurn ==
    [][ /\ (TaskEventStep /\ OwningSessionStored) =>
              /\ session_file' = OwningSession
              /\ Len(files') = Len(files)
              /\ files'[OwningSession] = Append(files[OwningSession], PromptRecord(now))
              /\ \A i \in 1..Len(files) : i # OwningSession => files'[i] = files[i]
              /\ dpc' = "turn"
              /\ provCalls' = 0
        /\ (cur.kind = "task" /\ dpc = "turn" /\ dpc' # "turn") =>
              provCalls' = provCalls + 1 ]_vars

\* a task-fired event has moved the run loop to another, existing session, and
\* the Provider has answered in its turn
C7_Witness ==
    /\ cur.kind = "task"
    /\ session_file = cur.task.session_file
    /\ evOut # <<>>
    /\ evOut[1].text = "Switched to session for task"
    /\ provCalls = 1
    /\ dpc = "post"

\* the handling of a task-fired event has reached the turn and the Provider has
\* not answered yet
BeforeFirstResponse == cur.kind = "task" /\ dpc = "turn" /\ provCalls = 0

\* C8 as stated: between taking a task-fired event off the queue and the
\* Provider's first response nothing is sent to any channel, also when the
\* event switches the session.
C8_Original == BeforeFirstResponse => evOut = <<>>

\* C8, amended: in that interval the prompt is never echoed, and the only
\* output there can be is one notice of the switch, sent to the event's channel
\* exactly when the event moves the run loop to another, existing session.
C8_OnlySwitchNotice ==
    [][ TaskEventStep =>
            evOut' = IF OwningSession # session_file /\ OwningSessionStored
                     THEN << [channel |-> Head(queue).channel,
                              text |-> "Switched to session for task"] >>
                     ELSE <<>> ]_vars

\* the switch notice is the one output before the Provider's first response
C8_Witness ==
    /\ BeforeFirstResponse
    /\ evOut = << [channel |-> cur.channel, text |-> "Switched to session for task"] >>

(***************************************************************************)
(* Properties of the compaction.                                           *)
(***************************************************************************)
\* the messages of a log, in order, without timestamps and metadata records
MessagesOf(log) ==
    LET kept == SelectSeq(log, LAMBDA r : r.type = "message")
    IN  [ i \in 1..Len(kept) |-> [role |-> kept[i].role, content |-> kept[i].content] ]

\* C9: compaction of a history of L messages.  L <= 6: the log stays as it is,
\* the Provider is not called and "not enough history" is reported.  L > 6: the
\* Provider is called once, and the log afterwards is exactly the two system
\* headers (the summary, then the "compacted" note) followed by the last 6
\* messages of the history, in their order and with their content.
C9_Compaction ==
    [][ /\ (dpc = "compact" /\ dpc' \notin {"compact", "crashed"}) =>
              IF Len(MessagesOf(files[session_file])) <= 6
              THEN /\ files' = files
                   /\ provCalls' = provCalls
                   /\ dpc' = "idle"
                   /\ evOut' = Append(evOut, [channel |-> current_channel,
                                              text |-> "Not enough history"])
              ELSE /\ dpc' = "summarize"
                   /\ files' = files
        /\ (dpc = "summarize" /\ dpc' = "replace") => provCalls' = provCalls + 1
        /\ (dpc = "replace" /\ dpc' = "idle") =>
              LET before == MessagesOf(rep.old)
                  after == files'[session_file]
                  L == Len(before)
              IN  /\ L > 6
                  /\ Len(after) = 2 + 6
                  /\ \A i \in 1..Len(after) : after[i].type = "message"
                  /\ after[1].role = "system" /\ after[1].content.tag = "Summary"
                  /\ after[2].role = "system" /\ after[2].content.tag = "compacted"
                  /\ \A i \in 1..6 :
                         /\ after[2 + i].role = before[L - 6 + i].role
                         /\ after[2 + i].content = before[L - 6 + i].content
                  /\ provCalls' = provCalls ]_vars

\* a history of more than 6 messages has been compacted to the 8 records
C9_Witness ==
    /\ dpc = "idle"
    /\ Len(MessagesOf(rep.old)) > 6
    /\ Len(files[session_file]) = 8
    /\ provCalls = 1
    /\ evOut # <<>>
    /\ evOut[Len(evOut)].text = "Context compacted"

\* C10: at every point of replace_history, a stop of the process in the middle
\* of it included, the session log on disk holds either the complete old
\* messages or the complete new ones, and is never empty or a partial prefix.
C10_AtomicReplace ==
    rep.active =>
        \/ files[session_file] = rep.old
        \/ MessagesOf(files[session_file]) = rep.new

(***************************************************************************)
(* Properties of the Scheduler's persisted list.                           *)
(***************************************************************************)
\* a call of add_task or remove_task that changed the list has returned
ApiMutationStep == tasks' # tasks /\ spc' = spc

\* a tick in which a task fired is over
FiringTickOver == spc \in {"iter", "after"} /\ spc' = "sleep" /\ tick.executed

\* C12: after every completed mutation (add_task, remove_task, a tick in which
\* a task fired) the persisted list is the in-memory list: the same tasks in
\* the same order with the same next_run, also when add_task and remove_task
\* interleave with a tick.
C12_MemoryAgreesWithStore ==
    [][ (ApiMutationStep \/ FiringTickOver) =>
            savedTasks' = [ i \in 1..Len(tasks') |-> to_dict(heap'[tasks'[i]]) ] ]_vars

\* a step of the Scheduler's tick thread: the thread moves on in _run_loop or
\* in _check_and_run_tasks
TickThreadStep == spc' # spc \/ tick' # tick

\* C13: the persisted task list is written only by the Scheduler's tick
\* thread: every step that changes it is a step of that thread, and none is a
\* call made on the Dispatcher's or another thread.
C13_OnlyTickThreadWrites ==
    [][ savedTasks' # savedTasks => TickThreadStep ]_vars

(***************************************************************************)
(* Properties of the session store.                                        *)
(***************************************************************************)
\* C11: for every session i, switch_session(i) followed by load_history()
\* gives exactly the messages that were appended to session i, in the order of
\* their appends and without the title records, whatever sessions were
\* started, visited or appended to in between.
C11_SwitchThenLoad ==
    \A i \in 1..Len(files) :
        LET sf == switch_session(files, session_file, i - 1)
        IN  /\ sf = i
            /\ load_history(files, sf) = appended[i]

\* the first session holds a title and a message, a later session holds a
\* message too and is the current one
C11_Witness ==
    /\ Len(files) >= 2
    /\ session_file # 1
    /\ appended[1] # <<>>
    /\ Len(files[1]) > Len(appended[1])
    /\ appended[session_file] # <<>>

(***************************************************************************)
(* Properties of the run loop's error handling.                            *)
(***************************************************************************)
\* the run loop is over
LoopEnded == dpc \in {"stopped", "dead"}

\* C15: no exception of the Provider, a tool, a channel or the Scheduler ends
\* the run loop: the only step that ends it is the handling of the exit
\* command, taken from the queue in Idle.
C15_OnlyShutdownEndsLoop ==
    [][ (~LoopEnded /\ LoopEnded') =>
            /\ dpc = "idle"
            /\ queue # <<>>
            /\ Head(queue).kind = "text"
            /\ Head(queue).text = "/exit" ]_vars

\* the step in which the run loop takes the text "/bogus", which names no
\* command, off the queue
UnknownCommandStep ==
    /\ dpc = "idle"
    /\ queue # <<>>
    /\ cur' = Head(queue)
    /\ queue' = Tail(queue)
    /\ Head(queue).kind = "text"
    /\ Head(queue).text = "/bogus"

\* C16: a text event naming an unknown command produces exactly one message,
\* on the channel the event came from, appends nothing to any session log,
\* does not call the Provider, and leaves the run loop in Idle for the next
\* event.
C16_UnknownCommand ==
    [][ UnknownCommandStep =>
            /\ evOut' = << [channel |-> Head(queue).channel, text |-> "Unknown command"] >>
            /\ files' = files
            /\ session_file' = session_file
            /\ provCalls' = 0
            /\ dpc' = "idle"
            /\ inflight' = 0 ]_vars

\* the unknown command has been answered and the run loop is in Idle with the
\* next event waiting
C16_Witness ==
    /\ dpc = "idle"
    /\ cur.kind = "text"
    /\ cur.text = "/bogus"
    /\ evOut = << [channel |-> cur.channel, text |-> "Unknown command"] >>
    /\ queue # <<>>

\* the step in which the Provider's response asks for the tool "nosuch", which
\* is not in the registry
UnknownToolStep == dpc = "turn" /\ dpc' # "turn" /\ tc' = "nosuch"

\* the record of an assistant message with the given text
AssistantRecord(text, t) ==
    [type |-> "message", role |-> "assistant", content |-> [tag |-> text, n |-> 0],
     timestamp |-> t]

\* C17: when the Provider asks for a tool that is not in the registry, exactly
\* one error message goes to the current channel, that error is persisted as
\* one assistant message, no tool is executed, the conversation loop ends
\* without a further Provider call, and the run loop goes on to the next event.
C17_UnknownTool ==
    [][ /\ UnknownToolStep =>
              /\ evOut' = Append(evOut, [channel |-> current_channel, text |-> "Tool not found"])
              /\ files' = [files EXCEPT ![session_file] =
                               Append(@, AssistantRecord("Tool not found", now))]
              /\ toolCalls' = toolCalls
              /\ provCalls' = provCalls + 1
              /\ dpc' = "post"
        /\ (dpc = "post" /\ dpc' # "post") =>
              /\ dpc' \in {"idle", "compact"}
              /\ provCalls' = provCalls
              /\ files' = files ]_vars

\* the error of the unknown tool is the last output and the last record, and
\* the run loop is back in Idle
C17_Witness ==
    /\ dpc = "idle"
    /\ tc = "nosuch"
    /\ evOut # <<>>
    /\ evOut[Len(evOut)].text = "Tool not found"
    /\ files[session_file] # <<>>
    /\ files[session_file][Len(files[session_file])].content.tag = "Tool not found"

\* the step in which the execution of a registered tool ends without a result
ToolFailsStep ==
    /\ dpc = "tool"
    /\ dpc' # "tool"
    /\ files' # [files EXCEPT ![session_file] =
                    Append(@, [type |-> "message", role |-> "tool",
                               content |-> [tag |-> "tool_result", n |-> 0], timestamp |-> now])]

\* C18: when the execution of a registered tool raises, the exception is
\* caught: one error message goes to the channel, one assistant error message
\* is persisted, the conversation loop ends without another Provider call, and
\* the run loop goes on to the next event.
C18_ToolRaises ==
    [][ /\ ToolFailsStep =>
              /\ evOut' = Append(evOut, [channel |-> current_channel,
                                         text |-> "Error executing tool"])
              /\ files' = [files EXCEPT ![session_file] =
                               Append(@, AssistantRecord("Error executing tool", now))]
              /\ provCalls' = provCalls
              /\ dpc' = "post"
        /\ dpc # "dead" ]_vars

\* a tool has failed in the turn of the first event, and the next event is in
\* its turn
C18_Witness ==
    /\ dpc = "turn"
    /\ \E c \in Channels : Len(processed[c]) = 2 \/ (Len(processed[1]) = 1 /\ Len(processed[2]) = 1)
    /\ \E i \in 1..Len(files[session_file]) :
          files[session_file][i].content.tag = "Error executing tool"

(***************************************************************************)
(* Properties of the handling of file attachments.                         *)
(***************************************************************************)
\* the step in which the run loop takes a file attachment off the queue
FileStep ==
    /\ dpc = "idle"
    /\ queue # <<>>
    /\ Head(queue).kind = "file"
    /\ cur' = Head(queue)
    /\ queue' = Tail(queue)

\* the records the step has appended to the current session's log
AppendedRecords ==
    SubSeq(files'[session_file], Len(files[session_file]) + 1, Len(files'[session_file]))

\* the log has only grown, and no other log has changed
OnlyAppends ==
    /\ session_file' = session_file
    /\ Len(files') = Len(files)
    /\ \A i \in 1..Len(files) : i # session_file => files'[i] = files[i]
    /\ Len(files'[session_file]) >= Len(files[session_file])
    /\ SubSeq(files'[session_file], 1, Len(files[session_file])) = files[session_file]

\* the parts the claim expects: the caption text, if any, then the file
\* reference with its mime type
ExpectedParts ==
    LET ev == Head(queue)
        ref == [file_path |-> ev.n, mime_type |-> ev.mime_type]
    IN  IF ev.caption = "None" THEN << ref >> ELSE << [text |-> ev.caption], ref >>

\* C19: a file attachment that is audio or image, or has a caption, appends
\* exactly one record: a user message whose parts are the caption text (if
\* any) followed by the file reference with its mime type; no system record is
\* appended, nothing is sent, and the turn is entered, which goes on only
\* through a call of the Provider.
C19_MediaFileEntersTurn ==
    [][ /\ (FileStep /\ (Head(queue).mime_type \in {"audio/ogg", "image/png"}
                         \/ Head(queue).caption # "None")) =>
              /\ OnlyAppends
              /\ Len(AppendedRecords) = 1
              /\ AppendedRecords[1].role = "user"
              /\ AppendedRecords[1].content.parts = ExpectedParts
              /\ dpc' = "turn"
              /\ provCalls' = 0
              /\ evOut' = <<>>
        /\ (cur.kind = "file" /\ dpc = "turn" /\ dpc' # "turn") =>
              provCalls' = provCalls + 1 ]_vars

\* a captioned file that is neither audio nor image is in its turn and the
\* Provider has answered
C19_Witness ==
    /\ cur.kind = "file"
    /\ cur.mime_type = "text/csv"
    /\ cur.caption = "look"
    /\ provCalls = 1
    /\ dpc = "post"
    /\ \E i \in 1..Len(files[session_file]) :
          /\ files[session_file][i].role = "user"
          /\ Len(files[session_file][i].content.parts) = 2

\* C20: a file attachment that is neither audio nor image and has no caption
\* appends exactly one system-role message, which reports the upload (after
\* the user message that refers to the file), does not call the Provider,
\* sends nothing to the channel and leaves the run loop in Idle.
C20_PlainFileIsRecorded ==
    [][ (FileStep /\ Head(queue).mime_type \notin {"audio/ogg", "image/png"}
                  /\ Head(queue).caption = "None") =>
              /\ OnlyAppends
              /\ Len(AppendedRecords) = 2
              /\ AppendedRecords[1].role = "user"
              /\ AppendedRecords[1].content.parts = ExpectedParts
              /\ AppendedRecords[2].role = "system"
              /\ AppendedRecords[2].content.tag = "SYSTEM: User uploaded file"
              /\ provCalls' = 0
              /\ evOut' = <<>>
              /\ dpc' = "idle"
              /\ inflight' = 0 ]_vars

\* a file without mime type and caption has been recorded, and the run loop is
\* in Idle with the next event waiting
C20_Witness ==
    /\ cur.kind = "file"
    /\ cur.mime_type = "None"
    /\ cur.caption = "None"
    /\ dpc = "idle"
    /\ provCalls = 0
    /\ evOut = <<>>
    /\ queue # <<>>
    /\ files[session_file][Len(files[session_file])].role = "system"

(***************************************************************************)
(* Properties of the threads.                                              *)
(***************************************************************************)
\* a step of a poller thread: get_input has returned an input
PollerStep == nprod' # nprod

\* a step of the Scheduler's thread, the firing callback included; the run
\* loop's start of the Scheduler (dpc = "init") is not one
SchedulerThreadStep == dpc # "init" /\ (spc' # spc \/ tick' # tick \/ fired' # fired)

\* C14: the session logs, the current session, the tool executions and the
\* Provider calls change only in steps of the run loop: a step of a poller or
\* of the Scheduler's thread (its firing callback included) leaves all of them
\* and the run loop's position as they are, and does nothing to the queue but
\* append at most one event.
C14_OnlyRunLoopTouchesSessions ==
    [][ (PollerStep \/ SchedulerThreadStep) =>
            /\ UNCHANGED <<files, session_file, provCalls, toolCalls, tc, evOut, hist, rep,
                           cur, current_channel, dpc>>
            /\ IsPrefix(queue, queue')
            /\ Len(queue') <= Len(queue) + 1 ]_vars

\* a tool runs in the run loop while the tick thread is in a tick in which a
\* task has fired, after a poller has handed in the input of the turn
C14_Witness ==
    /\ dpc = "tool"
    /\ spc = "after"
    /\ \E id \in DOMAIN fired : fired[id] >= 1
    /\ \E c \in Channels : nprod[c] >= 1

(***************************************************************************)
(* Properties of the output.                                               *)
(***************************************************************************)
\* C21: while an event is processed, the channel the run loop addresses with
\* its activity signals, status lines and outputs is the channel the event is
\* tagged with, and every output sent for the event went to that channel; so
\* an input from one channel causes no output on the other.
C21_OutputToOriginChannel ==
    cur.kind # "none" =>
        /\ current_channel = cur.channel
        /\ \A i \in 1..Len(evOut) : evOut[i].channel = cur.channel

\* an input of the second channel is answered after an input of the first
\* channel was processed
C21_Witness ==
    /\ cur.kind = "text"
    /\ cur.channel = 2
    /\ processed[1] # <<>>
    /\ evOut # <<>>
    /\ evOut[1].channel = 2

(***************************************************************************)
(* Properties of the Scheduler's interface.                                *)
(***************************************************************************)
\* the step in which the call named c returns
Returns(c) == ret'.n = ret.n + 1 /\ ret'.call = c

\* the task objects of the list, in its order
TaskList(ts, h) == [ i \in 1..Len(ts) |-> h[ts[i]] ]

\* C22: a schedule_task invocation with a prompt and a valid 'when' or 'cron'
\* registers exactly one new task, owned by the current session and carrying
\* the name of the channel of the event, and the stored list holds it.
C22_ScheduleTaskRegisters ==
    [][ (Returns("schedule_task") /\ ret'.valid) =>
            /\ Len(tasks') = Len(tasks) + 1
            /\ SubSeq(tasks', 1, Len(tasks)) = tasks
            /\ heap'[tasks'[Len(tasks')]].session_file = session_file
            /\ "channel_name" \in DOMAIN heap'[tasks'[Len(tasks')]]
            /\ savedTasks' = SaveTasks(tasks', heap') ]_vars

C24_RemoveTask ==
    [][ Returns("remove_task") =>
            IF InSeq(tasks, ret'.id)
            THEN /\ ret'.value = TRUE
                 /\ tasks' = SelectSeq(tasks, LAMBDA x : x # ret'.id)
                 /\ Len(tasks') = Len(tasks) - 1
                 /\ heap' = heap
                 /\ savedTasks' = TaskList(tasks', heap)
            ELSE /\ ret'.value = FALSE
                 /\ tasks' = tasks
                 /\ heap' = heap
                 /\ savedTasks' = savedTasks ]_vars

\* the first of two tasks was removed, and the second is still listed and
\* stored
C24_Witness ==
    /\ ret.call = "remove_task"
    /\ ret.id = 1
    /\ ret.value = TRUE
    /\ tasks = <<2>>
    /\ Len(savedTasks) = 1
    /\ savedTasks[1].id = 2

(***************************************************************************)
(* Properties of the title request.                                        *)
(***************************************************************************)
\* the log holds a title record
Titled(log) == \E i \in 1..Len(log) : log[i].type = "metadata" /\ log[i].role = "title"

\* the run loop takes a plain text that is no command off the queue
TextStep ==
    /\ dpc = "idle"
    /\ queue # <<>>
    /\ Head(queue).kind = "text"
    /\ Head(queue).text \notin {"/compact", "/exit", "/bogus"}
    /\ cur' = Head(queue)
    /\ queue' = Tail(queue)

\* C25: a plain text is appended as a user message; when the session has no
\* title, one Provider request for a title is made before the turn, and a
\* title it returns is stored; when the session has a title, the turn starts
\* without a title request.  Whatever the title request does (returns a
\* title, returns nothing, raises), the messages of the log stay as they are
\* and the turn runs, going on through a Provider request of its own.
C25_TitleRequest ==
    [][ /\ TextStep =>
              /\ files'[session_file] =
                     Append(files[session_file],
                            Record(Msg("user", Content(cur'.text, cur'.n)), now))
              /\ provCalls' = 0
              /\ dpc' = IF Titled(files[session_file]) THEN "turn" ELSE "title"
        /\ dpc = "title" =>
              /\ ~Titled(files[session_file])
              /\ provCalls = 0
              /\ dpc' # "title" =>
                    /\ provCalls' = 1
                    /\ dpc' = "turn"
                    /\ Loaded(files'[session_file]) = Loaded(files[session_file])
                    /\ \/ files' = files
                       \/ /\ Len(files'[session_file]) = Len(files[session_file]) + 1
                          /\ Titled(files'[session_file])
        /\ (cur.kind = "text" /\ dpc = "turn" /\ dpc' # "turn") =>
              provCalls' = provCalls + 1 ]_vars

\* the second text of a channel is in its turn without a title request, in a
\* session that the title request of an earlier text has given its title
C25_Witness ==
    /\ cur.kind = "text"
    /\ dpc = "turn"
    /\ provCalls = 0
    /\ Titled(files[session_file])
    /\ \E c \in Channels : Len(processed[c]) + Len(processed[3 - c]) = 2

(***************************************************************************)
(* Properties of the shutdown.                                             *)
(***************************************************************************)
\* C26: when the run loop ends, by /exit or by the user's interrupt, the
\* Scheduler's running flag is cleared and every channel's stop_activity has
\* been called; from then on the run loop takes no event: the events in the
\* queue stay there, later ones are only added behind them, and no log,
\* session, Provider or tool is touched.
C26_OrderlyShutdown ==
    [][ /\ (dpc # "stopped" /\ dpc' = "stopped") =>
              /\ ~running'
              /\ \A c \in Channels : stopAsked'[c]
        /\ dpc = "stopped" =>
              /\ dpc' = "stopped"
              /\ IsPrefix(queue, queue')
              /\ UNCHANGED <<cur, files, session_file, provCalls, toolCalls, processed, evOut,
                             inflight, running, stopAsked>> ]_vars

\* the interrupt has ended the loop in the middle of a turn while an event
\* was waiting in the queue
C26_Witness ==
    /\ dpc = "stopped"
    /\ cur.kind = "text"
    /\ cur.text = "hi"
    /\ queue # <<>>
    /\ evOut # <<>>
    /\ evOut[Len(evOut)].text = "Interrupted by user"
    /\ ~running
    /\ \A c \in Channels : stopAsked[c]

(***************************************************************************)
(* Properties of the Provider call.                                        *)
(***************************************************************************)
\* C27: a Provider call makes at most 1 + 3 attempts; one whose every
\* attempt fails transiently makes exactly these and returns an error string,
\* which the run loop sends to the channel of the event and appends as an
\* assistant message, ending the turn; the run loop then waits for the next
\* event.
C27_RetriesThenErrorString ==
    [][ /\ Returns("generate_response") =>
              /\ ret'.attempts <= 1 + 3
              /\ ret'.failing =>
                    /\ ret'.attempts = 1 + 3
                    /\ ret'.kind = "error"
                    /\ evOut' = Append(evOut, Out(cur.channel, "Error from Provider"))
                    /\ files'[session_file] =
                          Append(files[session_file],
                                 Record(Msg("assistant", Content("Error from Provider", 0)), now))
                    /\ dpc' = "post"
                    /\ running' = running
        /\ (dpc = "post" /\ dpc' # "post") => (dpc' = "idle" /\ inflight' = 0) ]_vars

\* the Provider has given up after its retries, and the run loop has finished
\* the turn and taken the next event
C27_Witness ==
    /\ ret.call = "generate_response"
    /\ ret.failing
    /\ ret.attempts = 4
    /\ ret.n = 1
    /\ dpc = "turn"
    /\ \E c \in Channels : Len(processed[c]) + Len(processed[3 - c]) = 2

(***************************************************************************)
(* Properties of a tick.                                                   *)
(***************************************************************************)
\* the tasks the tick has fired are in the order of the tick's copy
InCopyOrder(tk) ==
    \A i, j \in 1..Len(tk.called) :
        i < j => IndexOf(tk.snap, tk.called[i], 1) < IndexOf(tk.snap, tk.called[j], 1)

\* C28: a tick goes through the in-memory list as it is when the tick
\* begins, and the callbacks of the tasks it finds due are invoked in the
\* order of that list, whatever their next_run.
C28_FiringInListOrder ==
    [][ /\ (spc = "sleep" /\ spc' = "iter") => tick'.snap = tasks
        /\ (spc \in {"iter", "after"} /\ spc' \in {"iter", "after"}) =>
              /\ tick'.snap = tick.snap
              /\ tick'.idx >= tick.idx
        /\ fired' # fired =>
              /\ tick'.called = Append(tick.called, tick.snap[tick.idx])
              /\ fired' = [fired EXCEPT ![tick.snap[tick.idx]] = @ + 1]
        /\ InCopyOrder(tick') ]_vars

\* two tasks have fired in one tick, the one listed first although its
\* next_run is the later one
C28_Witness ==
    /\ Len(tick.called) = 2
    /\ heap[tick.called[1]].trigger_type = "at"
    /\ heap[tick.called[2]].trigger_type = "at"
    /\ heap[tick.called[1]].next_run > heap[tick.called[2]].next_run

\* C29: the firing callback's exception stays inside the iteration: nothing
\* is enqueued, and the tick goes on at the same task, so that the tasks
\* behind it are checked as well.  A tick ends only after the whole copy, when
\* every task of the copy that is due has been fired, and the loop is then
\* asleep with running still set.
C29_CallbackFailureIsContained ==
    [][ /\ (fired' # fired /\ OnScheduledTaskRaises(heap[tick.snap[tick.idx]])) =>
              /\ queue' = queue
              /\ spc' = "after"
              /\ tick'.snap = tick.snap
              /\ tick'.idx = tick.idx
              /\ running' = running
        /\ (spc \in {"iter", "after"} /\ spc' = "sleep") =>
              /\ tick.idx > Len(tick.snap)
              /\ running'
              /\ \A i \in 1..Len(tick.snap) :
                    \/ InSeq(tick.called, tick.snap[i])
                    \/ ~IsDue(heap[tick.snap[i]], tick.now) ]_vars

\* a tick in which the callbacks of two due tasks raised is over, and the
\* loop is asleep until the next tick
C29_Witness ==
    /\ spc = "sleep"
    /\ running
    /\ \E a, b \in DOMAIN fired : a # b /\ fired[a] >= 1 /\ fired[b] >= 1
    /\ cbEnq = 0

\* the recomputation of next_run fails for the cron task that has fired
RescheduleFails ==
    /\ spc = "after"
    /\ spc' = "iter"
    /\ heap[tick.snap[tick.idx]].trigger_type = "cron"
    /\ ~CronHasNext(heap[tick.snap[tick.idx]].trigger_value, tick.now)

\* C30: after a failed recomputation the task is in the list with its
\* next_run as before, the tick goes on behind it, and the task is not due
\* now or at any later instant.
C30_StaleTaskIsDisabled ==
    [][ RescheduleFails =>
            /\ tasks' = tasks
            /\ heap'[tick.snap[tick.idx]].next_run = heap[tick.snap[tick.idx]].next_run
            /\ tick'.idx = tick.idx + 1
            /\ \A t \in now..MaxTime : ~IsDue(heap'[tick.snap[tick.idx]], t) ]_vars

(***************************************************************************)
(* Properties of the Scheduler's stop.                                     *)
(***************************************************************************)
\* C31: once stop() has been called no tick begins: the thread, when it is
\* asleep, stays asleep or ends; a firing after the stop belongs to the tick
\* that was in progress when stop() was called, and that tick goes on to its
\* end.
C31_NoTickAfterStop ==
    [][ (ret.call = "stop" /\ ~running) =>
            /\ spc \in {"sleep", "off"} =>
                  /\ spc' \in {"sleep", "off"}
                  /\ fired' = fired
                  /\ tick' = tick
            /\ fired' # fired => (spc = "iter" /\ tick.idx >= 1)
            /\ (spc \in {"iter", "after"} /\ spc' = "sleep") =>
                  tick.idx > Len(tick.snap) ]_vars

\* the loop was stopped and has ended while a listed task is due
C31_Witness ==
    /\ ret.call = "stop"
    /\ ~running
    /\ spc = "off"
    /\ \E i \in 1..Len(tasks) : IsDue(heap[tasks[i]], now) /\ fired[tasks[i]] = 0

(***************************************************************************)
(* Properties of the turn with a tool.                                     *)
(***************************************************************************)
\* the last record of the current session's log is a message of that role
\* and tag
LastRecordIs(fs, role, tag) ==
    LET log == fs[session_file]
    IN  /\ log # <<>>
        /\ log[Len(log)].type = "message"
        /\ log[Len(log)].role = role
        /\ log[Len(log)].content.tag = tag

\* C32: for a call of a registered tool the steps are, in this order: the
\* tool-call record is appended; the tool is executed with the workspace
\* path, the Scheduler and the name of the event's channel among its
\* arguments; every file in the output directory is sent to the channel of
\* the event; the tool-result record is appended; then the Provider is
\* called, with a history that ends with the two records.
C32_ToolTurnOrder ==
    [][ /\ (dpc = "turn" /\ dpc' = "tool") =>
              /\ Len(files'[session_file]) = Len(files[session_file]) + 1
              /\ LastRecordIs(files', "model", "tool_call")
        /\ (dpc = "tool" /\ dpc' # "tool") =>
              /\ LastRecordIs(files, "model", "tool_call")
              /\ ret'.call = "execute"
              /\ {"_workspace", "_scheduler", "_channel_name"} \subseteq DOMAIN ret'.args
              /\ ret'.args["_workspace"] = "workspace_dir"
              /\ ret'.args["_scheduler"] = "scheduler"
              /\ ret'.args["_channel_name"] = cur.channel
              /\ provCalls' = provCalls
              /\ dpc' \in {"relay", "post"}
              /\ dpc' = "relay" => (files' = files /\ evOut' = evOut)
        /\ (dpc = "relay" /\ dpc' # "relay") =>
              /\ dpc' = "result"
              /\ Len(evOut') = Len(evOut) + output_dir
              /\ SubSeq(evOut', 1, Len(evOut)) = evOut
              /\ \A i \in (Len(evOut) + 1)..Len(evOut') :
                    evOut'[i] = [channel |-> cur.channel, text |-> "I've generated a file"]
              /\ output_dir' = 0
              /\ files' = files
              /\ provCalls' = provCalls
        /\ (dpc = "result" /\ dpc' # "result") =>
              /\ dpc' = "turn"
              /\ LastRecordIs(files, "model", "tool_call")
              /\ Len(files'[session_file]) = Len(files[session_file]) + 1
              /\ LastRecordIs(files', "tool", "tool_result")
              /\ evOut' = evOut
              /\ provCalls' = provCalls
        /\ (Returns("generate_response") /\ toolCalls >= 1) =>
              LET m == ret'.messages
              IN  /\ Len(m) >= 2
                  /\ m[Len(m) - 1] = [role |-> "model", content |-> [tag |-> "tool_call", n |-> 0]]
                  /\ m[Len(m)] = [role |-> "tool", content |-> [tag |-> "tool_result", n |-> 0]]
                  /\ provCalls' = provCalls + 1 ]_vars

\* the Provider has answered after a tool whose files went to the second
\* channel, from which the event came
C32_Witness ==
    /\ dpc = "post"
    /\ ret.call = "generate_response"
    /\ toolCalls = 1
    /\ cur.channel = 2
    /\ Len(ret.messages) >= 3
    /\ \E i \in 1..Len(evOut) : evOut[i] = [channel |-> 2, text |-> "I've generated a file"]

(***************************************************************************)
(* Properties of the final response.                                       *)
(***************************************************************************)
\* the characters of the text that are not whitespace
Visible(t) == SelectSeq(t, LAMBDA ch : ch \notin {" ", "\n"})

\* what the step did with the final text t: nothing sent and nothing
\* appended, or t sent once to the channel of the event and appended as one
\* assistant message
Suppressed == evOut' = evOut /\ files' = files
SentOnce(t) ==
    /\ evOut' = Append(evOut, [channel |-> cur.channel, text |-> t])
    /\ files' = [files EXCEPT ![session_file] =
                     Append(@, [type |-> "message", role |-> "assistant",
                                content |-> [tag |-> "response", n |-> 0, text |-> t],
                                timestamp |-> now])]

\* the turn ends: nothing more is sent or appended for the event, and the
\* run loop goes back to the queue
TurnEnds ==
    /\ Returns("generate_response") => dpc' = "post"
    /\ (dpc = "post" /\ dpc' # "post") =>
          (dpc' = "idle" /\ files' = files /\ evOut' = evOut /\ provCalls' = provCalls)

\* C33: a final text that is empty, '_' or '.' once its whitespace is
\* trimmed (a text of whitespace only is empty) is suppressed: nothing is
\* sent and nothing is appended; every other final text is sent once to the
\* channel of the event and appended as one assistant message; the turn ends
\* in both cases.
C33_SilentIsSuppressed ==
    [][ /\ Returns("generate_response") =>
              IF Visible(ret'.text) \in { <<>>, <<"_">>, <<".">> }
              THEN Suppressed
              ELSE SentOnce(ret'.text)
        /\ TurnEnds ]_vars

\* a '_' with whitespace before it was suppressed, and the run loop is back
\* at the queue with nothing sent for the event
C33_Witness ==
    /\ ret.call = "generate_response"
    /\ ret.text = <<" ", "_">>
    /\ dpc = "idle"
    /\ evOut = <<>>
    /\ provCalls >= 1
    /\ \A i \in 1..Len(files[session_file]) : files[session_file][i].role # "assistant"

(***************************************************************************)
(* Properties of the check after the turn.                                 *)
(***************************************************************************)
\* the event is a command, or a file that is only recorded
NoTurnEvent(ev) ==
    \/ ev.kind = "text" /\ ev.text \in {"/bogus", "/compact", "/exit"}
    \/ ev.kind = "file" /\ ev.mime_type \notin {"audio/ogg", "image/png"} /\ ev.caption = "None"

\* the compaction is under way
Compacting == dpc \in {"compact", "summarize", "replace"}

\* C34: when a turn has ended, the compaction starts exactly if a threshold
\* is configured and the total token count the Provider reports is greater
\* than it, and otherwise the run loop goes back to the queue; no event is
\* taken off the queue before the compaction is over.  A compaction starts
\* only there or by the compaction command; a command or a file that is only
\* recorded never comes to the check.
C34_AutoCompaction ==
    [][ /\ (dpc = "post" /\ dpc' # "post") =>
              /\ queue' = queue
              /\ cur' = cur
              /\ files' = files
              /\ IF threshold /\ ret'.total_tokens > 1
                 THEN dpc' = "compact"
                 ELSE dpc' = "idle"
        /\ Compacting =>
              /\ cur' = cur
              /\ processed' = processed
              /\ IsPrefix(queue, queue')
        /\ (~Compacting /\ Compacting') =>
              \/ dpc = "post" /\ threshold
              \/ dpc = "idle" /\ cur'.kind = "text" /\ cur'.text = "/compact"
        /\ (dpc = "idle" /\ queue # <<>> /\ queue' = Tail(queue) /\ NoTurnEvent(Head(queue))) =>
              /\ dpc' \in {"idle", "compact"}
              /\ ret' = ret
        /\ dpc' = "post" => ~NoTurnEvent(cur') ]_vars

\* the compaction after the turn of a text rewrites the log while the next
\* event waits on the queue
C34_Witness ==
    /\ threshold
    /\ dpc = "replace"
    /\ cur.kind = "text"
    /\ cur.text = "hi"
    /\ ret.call = "get_usage"
    /\ ret.total_tokens = 2
    /\ queue # <<>>

(***************************************************************************)
(* Properties of the Scheduler's interface during a tick.                  *)
(***************************************************************************)
\* C35: when remove_task(id) has returned true, the firing callback is not
\* invoked for that task any more, also when a tick had begun before the
\* call.
C35_RemovedNeverFires ==
    [][ (ret.call = "remove_task" /\ ret.value) => fired'[ret.id] = fired[ret.id] ]_vars

\* C36: a tick during which add_task or remove_task is called on another
\* thread still goes through its whole copy: it ends only behind the last
\* task, with every task of the copy that is due fired, and with the list it
\* leaves, removals and new next_run values included, stored.
C36_TickNeverAborts ==
    [][ (spc \in {"iter", "after"} /\ spc' = "sleep") =>
            /\ tick.idx > Len(tick.snap)
            /\ \A i \in 1..Len(tick.snap) :
                  \/ InSeq(tick.called, tick.snap[i])
                  \/ ~IsDue(heap[tick.snap[i]], tick.now)
            /\ tick.executed => savedTasks' = SaveTasks(tasks', heap') ]_vars

(***************************************************************************)
(* Properties of the Scheduler across a restart.                           *)
(***************************************************************************)
\* C37: wherever the process stops, the Scheduler that is then constructed
\* on the stored list holds no one-shot task whose callback has been
\* invoked, and no one-shot task is ever fired twice.
C37_FiredOnceAcrossRestart ==
    [][ /\ Returns("Scheduler") =>
              \A i \in 1..Len(tasks') :
                  heap'[tasks'[i]].trigger_type = "at" => fired[tasks'[i]] = 0
        /\ \A id \in DOMAIN fired' :
              (id \in DOMAIN heap' /\ heap'[id].trigger_type = "at") => fired'[id] <= 1 ]_vars

(***************************************************************************)
(* Properties of start() and stop().                                       *)
(***************************************************************************)
\* C38: at most one tick loop runs at any time, whatever start() and stop()
\* calls were made: a start() while the flag is set starts nothing, a
\* start() after a stop() does not leave the earlier loop running beside the
\* new one, and so no one-shot task is fired by two loops.
C38_AtMostOneLoop ==
    /\ spc = "off" \/ orphan.spc = "off"
    /\ \A id \in DOMAIN heap : heap[id].trigger_type = "at" => fired[id] <= 1

(***************************************************************************)
(* Properties of the session title.                                        *)
(***************************************************************************)
\* C39: a session that has a title keeps it under every operation: whatever
\* the step (an append, a compaction by command or after a turn), a log that
\* holds a title record holds one afterwards, so that has_title() stays true
\* for the session and no second title request is made for it.
C39_TitleStays ==
    [][ \A i \in 1..Len(files) :
            Titled(files[i]) => (Titled(files'[i]) /\ (session_file' = i => dpc' # "title")) ]_vars

(***************************************************************************)
(* Properties of the tool records.                                         *)
(***************************************************************************)
IsToolCall(r) == r.type = "message" /\ r.role = "model" /\ r.content.tag = "tool_call"
IsToolResult(r) == r.type = "message" /\ r.role = "tool" /\ r.content.tag = "tool_result"
IsToolError(r) ==
    r.type = "message" /\ r.role = "assistant" /\ r.content.tag = "Error executing tool"

\* C40: whenever the run loop is idle, in every session log each tool-call
\* record is followed at once by its tool-result record or by an assistant
\* error record, and each tool-result record comes at once after its
\* tool-call record, whatever turns and compactions there have been.
C40_ToolRecordsPaired ==
    dpc = "idle" =>
        \A i \in 1..Len(files) :
            \A k \in 1..Len(files[i]) :
                /\ IsToolCall(files[i][k]) =>
                      /\ k < Len(files[i])
                      /\ IsToolResult(files[i][k + 1]) \/ IsToolError(files[i][k + 1])
                /\ IsToolResult(files[i][k]) =>
                      /\ k > 1
                      /\ IsToolCall(files[i][k - 1])

====
